---- MODULE Spec2Model ----
(***************************************************************************)
(* Model of the EDI merge queue and paced transmitter (class EDISender of  *)
(* src/src/EDISender.cpp) as a state machine.                              *)
(*                                                                         *)
(* Two threads act on the EDISender: the supervisor thread, which calls    *)
(* push_tagpacket, update_settings and reset_counters, and the transmitter *)
(* thread, which runs process(), inhibit() and send_tagpacket().           *)
(*                                                                         *)
(* Time is counted in milliseconds. The wall clock (system_clock) is       *)
(* counted from the EDI epoch, so that the constant epoch offset of the    *)
(* timestamp conversion cancels out; the monotonic clock (steady_clock)    *)
(* is counted from the construction of the EDISender.                      *)
(***************************************************************************)
EXTENDS Integers, Sequences, FiniteSets, TLC

VARIABLES
    settings,                   \* EDISender::_settings (delay_ms, drop_late, backoff)
    edi_enabled,                \* _edi_sender and _edi_conf.enabled()
    running,                    \* EDISender::_running
    pending_tagpackets,         \* EDISender::_pending_tagpackets
    most_recent_timestamp,      \* EDISender::_most_recent_timestamp
    late_score,                 \* EDISender::late_score
    output_inhibit_until,       \* EDISender::_output_inhibit_until
    show_backoff_ended_message, \* EDISender::_show_backoff_ended_message
    num_dropped,                \* EDISender::num_dropped
    num_queue_overruns,         \* EDISender::num_queue_overruns
    num_dlfc_discontinuities,   \* EDISender::num_dlfc_discontinuities
    num_frames,                 \* EDISender::num_frames
    num_late,                   \* Receiver::num_late, one per receiver
    pc,                         \* position of the transmitter thread in process()
    tagpacket,                  \* local tagpacket of process()
    prev_dlfc_valid,            \* local prev_dlfc_valid of process()
    prev_dlfc,                  \* local prev_dlfc of process()
    wake_at,                    \* monotonic instant at which sleep_for returns
    system_now,                 \* chrono::system_clock::now()
    steady_now,                 \* chrono::steady_clock::now()
    push_budget,                \* push_tagpacket calls the behaviour may still make
    pop_budget,                 \* packets the transmitter may still pop in the behaviour
    num_popped,                 \* history: number of packets popped so far
    sent,                       \* merging scenario: frames each source has delivered
    mode,                       \* Main::mode
    enabled,                    \* source_t::enabled, one per source
    active,                     \* source_t::active
    connected,                  \* source_t::connected
    num_connects,               \* source_t::num_connects
    sock_valid,                 \* Receiver::sock.valid(): get_sockfd() is not -1
    edi_decoder,                \* Receiver::m_edi_decoder holds a decoder
    most_recent_rx_time,        \* Receiver::most_recent_rx_time
    reconnect_at,               \* Receiver::reconnect_at
    last_connect_at,            \* history: time of the receiver's last connect()
    closed_at,                  \* history: time receive() last closed the socket
    collector,                  \* Receiver: m_proto_valid, m_fc_valid, m_fic, m_fc,
                                \* m_subchannels
    decoded,                    \* history: the AF packet last decoded, its callback
    main_pc,                    \* position of the supervisor thread in Main::start
    iter_budget,                \* loop iterations the supervisor may still make
    num_poll_timeout,           \* Main::num_poll_timeout
    rc_command,                 \* the RC command the last poll() brought, if any
    m_expected_next_fp,         \* ETI2ZMQ::m_expected_next_fp
    zmq_out,                    \* history: the last call of encode_zmq_frame
    eti_frame,                  \* history: the ETI frame last reconstructed
    mutex,                      \* EDISender::_mutex: the thread that holds it
    sup_at,                     \* the EDISender call the supervisor thread is in
    tx_at                       \* the EDISender call the transmitter thread is in

vars == << settings, edi_enabled, running, pending_tagpackets,
           most_recent_timestamp, late_score, output_inhibit_until,
           show_backoff_ended_message, num_dropped, num_queue_overruns,
           num_dlfc_discontinuities, num_frames, num_late, pc, tagpacket,
           prev_dlfc_valid, prev_dlfc, wake_at, system_now, steady_now,
           push_budget, pop_budget, num_popped, sent, mode, enabled, active,
           connected, num_connects, sock_valid, edi_decoder,
           most_recent_rx_time, reconnect_at, last_connect_at, closed_at,
           collector, decoded, main_pc, iter_budget, num_poll_timeout,
           rc_command, m_expected_next_fp, zmq_out, eti_frame, mutex,
           sup_at, tx_at >>

\* the ZMQ output of reconstructed ETI frames
zmq_vars == << m_expected_next_fp, zmq_out, eti_frame >>

\* the mutex of the EDISender and the position of each thread in the call
\* it makes
lock_vars == << mutex, sup_at, tx_at >>

\* the state of the supervisor thread and of its receivers, but for the
\* counters num_connects and num_poll_timeout
main_vars == << mode, enabled, active, connected, sock_valid, edi_decoder,
               most_recent_rx_time, reconnect_at, last_connect_at,
               closed_at, collector, decoded, main_pc, iter_budget,
               rc_command, m_expected_next_fp, zmq_out, eti_frame, mutex,
               sup_at, tx_at >>

-----------------------------------------------------------------------------
(* Bounds of the model *)

\* push_tagpacket is called at most this many times in a behaviour
MaxPushes == 3

\* the transmitter pops at most this many packets in a behaviour
MaxPops == 3

\* the clocks advance at most this many times in a behaviour
MaxTicks == 2

\* the clocks advance in steps of this many milliseconds
TickMs == 500

\* wall clock (milliseconds since the EDI epoch) at construction
SystemStart == 1500

\* push_tagpacket calls made on a full queue in a behaviour
FullPushes == 1

\* packets popped from a full queue in a behaviour
FullPops == 1

\* frames each source delivers in the merging scenario
NumFrames == 3

\* sources on the command line, in list order
NumSources == 3

\* iterations of the supervisor's loop in a behaviour
MaxIterations == 2

\* monotonic clock (milliseconds) when Main::start enters its loop
MainStart == 1000

\* the switch delay given on the command line (-w), in milliseconds
switch_delay == 200

\* milliseconds a supervisor found running has been in its loop
RunningFor == 480

\* TAG items in the payload of an AF packet
MaxTags == 2

\* encode_zmq_frame is called at most this many times in a behaviour
MaxZmqFrames == 5

-----------------------------------------------------------------------------
(* Program constants *)

MAX_PENDING_TAGPACKETS == 1000

LATE_SCORE_INCREASE == 10

LATE_SCORE_THRESHOLD == 100

LATE_SCORE_MAX == 200

DLFC_MODULUS == 5000

\* sub-second ticks per second of the upper 24 bits of tsta
TSTA_TICKS_PER_SECOND == 16384

\* tsta carries the sub-second ticks above its lowest 8 bits
TSTA_LOW_BITS == 256

\* Receiver: delay between connection attempts, in milliseconds
RECONNECT_DELAY == 480

\* Main::start: frames of 24 ms a poll() waits for
POLL_TIMEOUT_FRAMES == 10

\* the timeout of poll(), in milliseconds
POLL_TIMEOUT_MS == 24 * POLL_TIMEOUT_FRAMES

-----------------------------------------------------------------------------
(* Inputs *)

\* std::optional<int> delay_ms: empty without a value, else << value >>
NoDelay == << >>

has_value(opt) == Len(opt) > 0

value_of(opt) == opt[1]

Hosts == {"A", "B"}

\* the sources by their position in Main::sources
Sources == 1..NumSources

\* the hostname of a source: the first source is on host "A", the others
\* are ports of host "B"
SourceHost(i) == IF i = 1 THEN "A" ELSE "B"

DelayValues == {NoDelay, << 500 >>}

BackoffValues == {1000}

Dlfcs == {0, 1}

\* half a second in tsta: 8192 ticks in the upper 24 bits
TstaValues == {0, 8192 * TSTA_LOW_BITS}

\* seconds fields of pushed timestamps: none (0) or a second
SecondsValues == {0, 1}

Timestamps == [seconds : SecondsValues, utco : {0}, tsta : TstaValues]

-----------------------------------------------------------------------------
(* EdiDecoder::frame_timestamp_t *)

\* a timestamp is valid when its seconds field is not 0
is_valid(ts) == ts.seconds # 0

\* operator<: timestamps compare by (seconds, tsta)
ts_lt(a, b) ==
    \/ a.seconds < b.seconds
    \/ a.seconds = b.seconds /\ a.tsta < b.tsta

\* operator==
ts_eq(a, b) == a.seconds = b.seconds /\ a.tsta = b.tsta

\* operator>=
ts_ge(a, b) == ~ts_lt(a, b)

\* wall-clock time of a timestamp, in milliseconds since the EDI epoch
to_system_clock(ts) ==
    (ts.seconds + ts.utco) * 1000
        + ((ts.tsta \div TSTA_LOW_BITS) * 1000) \div TSTA_TICKS_PER_SECOND

\* a default-constructed frame_timestamp_t
DefaultTimestamp == [seconds |-> 0, utco |-> 0, tsta |-> 0]

-----------------------------------------------------------------------------
(* tagpacket_t *)

\* a default-constructed tagpacket_t: no hostnames, empty afpacket
EmptyTagpacket ==
    [hostnames |-> << >>, afpacket |-> << >>, dlfc |-> 0,
     timestamp |-> DefaultTimestamp]

\* the tagpacket Receiver::assemble hands to push_tagpacket for source h:
\* the AF packet is that source's own copy of the frame
NewTagpacket(h, dlfc, ts) ==
    [hostnames |-> << h >>, afpacket |-> << h >>, dlfc |-> dlfc,
     timestamp |-> ts]

-----------------------------------------------------------------------------
(* EDISender::push_tagpacket *)

\* push_tagpacket's late flag with the delay taken as seconds
PushLate_DelayInSeconds(tp) ==
    IF has_value(settings.delay_ms)
    THEN IF tp.timestamp.seconds = 0
         THEN TRUE
         ELSE to_system_clock(tp.timestamp)
                 + value_of(settings.delay_ms) * 1000 < system_now
    ELSE FALSE

\* a late flag that takes an unset delay for a delay of 0 ms
PushLate_UnsetIsZero(tp) ==
    IF tp.timestamp.seconds = 0
    THEN TRUE
    ELSE to_system_clock(tp.timestamp)
            + (IF has_value(settings.delay_ms)
               THEN value_of(settings.delay_ms) ELSE 0) < system_now

\* the late flag of push_tagpacket
PushLate(tp) ==
    IF has_value(settings.delay_ms)
    THEN IF tp.timestamp.seconds = 0
         THEN TRUE
         ELSE to_system_clock(tp.timestamp) + value_of(settings.delay_ms)
                 < system_now
    ELSE FALSE

\* a packet already handed off to the transmitter thread
PushDupLate(tp) ==
    /\ is_valid(most_recent_timestamp)
    /\ ts_ge(most_recent_timestamp, tp.timestamp)

\* the inhibited flag of push_tagpacket
PushInhibited == steady_now < output_inhibit_until

\* the for loop over _pending_tagpackets stops at the first pending packet
\* whose timestamp is not before tp's: its position, 0 when there is none
FindPosition(q, tp) ==
    LET stops == {i \in 1..Len(q) :
                    \/ ts_lt(tp.timestamp, q[i].timestamp)
                    \/ ts_eq(tp.timestamp, q[i].timestamp)}
    IN IF stops = {} THEN 0
       ELSE CHOOSE i \in stops : \A j \in stops : i <= j

\* an insertion that always pushes to the back
InsertTagpacket_PushBack(q, tp) == Append(q, tp)

\* an insertion that lets a duplicate replace the pending copy
InsertTagpacket_ReplaceDuplicate(q, tp) ==
    LET i == FindPosition(q, tp) IN
    IF i = 0 THEN Append(q, tp)
    ELSE IF ts_lt(tp.timestamp, q[i].timestamp)
         THEN SubSeq(q, 1, i - 1) \o << tp >> \o SubSeq(q, i, Len(q))
         ELSE IF tp.dlfc # q[i].dlfc
              THEN q
              ELSE [q EXCEPT ![i] =
                      [tp EXCEPT !.hostnames = q[i].hostnames \o @]]

\* an insertion that does not note the hostname of a duplicate
InsertTagpacket_NoHostnameMerge(q, tp) ==
    LET i == FindPosition(q, tp) IN
    IF i = 0 THEN Append(q, tp)
    ELSE IF ts_lt(tp.timestamp, q[i].timestamp)
         THEN SubSeq(q, 1, i - 1) \o << tp >> \o SubSeq(q, i, Len(q))
         ELSE q

\* an insertion that lets a packet of another DLFC replace the pending one
InsertTagpacket_ReplaceMismatch(q, tp) ==
    LET i == FindPosition(q, tp) IN
    IF i = 0 THEN Append(q, tp)
    ELSE IF ts_lt(tp.timestamp, q[i].timestamp)
         THEN SubSeq(q, 1, i - 1) \o << tp >> \o SubSeq(q, i, Len(q))
         ELSE IF tp.dlfc # q[i].dlfc
              THEN [q EXCEPT ![i] = tp]
              ELSE [q EXCEPT ![i].hostnames = @ \o tp.hostnames]

\* the insertion of tp into the pending list
InsertTagpacket(q, tp) ==
    LET i == FindPosition(q, tp) IN
    IF i = 0 THEN Append(q, tp)
    ELSE IF ts_lt(tp.timestamp, q[i].timestamp)
         THEN SubSeq(q, 1, i - 1) \o << tp >> \o SubSeq(q, i, Len(q))
         ELSE IF tp.dlfc # q[i].dlfc
              THEN q
              ELSE [q EXCEPT ![i].hostnames = @ \o tp.hostnames]

\* every valid packet decreases the score by 1
LateScoreDecrease(score) == IF score > 0 THEN score - 1 ELSE score

\* an increase without the limit LATE_SCORE_MAX
LateScoreIncrease_NoLimit(score) == score + LATE_SCORE_INCREASE

\* every late packet increases the score by LATE_SCORE_INCREASE
LateScoreIncrease(score) ==
    IF score + LATE_SCORE_INCREASE > LATE_SCORE_MAX
    THEN LATE_SCORE_MAX
    ELSE score + LATE_SCORE_INCREASE

\* an overrun check that lets one packet too many stay
DropOverrun_OffByOne(q) ==
    IF Len(q) > MAX_PENDING_TAGPACKETS + 1 THEN Tail(q) ELSE q

\* an overrun check that drops the back of the list
DropOverrun_PopBack(q) ==
    IF Len(q) > MAX_PENDING_TAGPACKETS
    THEN SubSeq(q, 1, Len(q) - 1) ELSE q

\* the pending list after the overrun check
DropOverrun(q) ==
    IF Len(q) > MAX_PENDING_TAGPACKETS THEN Tail(q) ELSE q

\* push_tagpacket(tp, r), r being the receiver of source r
push_tagpacket(tp, r) ==
    LET late == PushLate(tp)
        duplate == PushDupLate(tp)
        inhibited == PushInhibited
        enqueue == ~duplate /\ ~late /\ ~inhibited
        q == IF enqueue THEN InsertTagpacket(pending_tagpackets, tp)
             ELSE pending_tagpackets
    IN
    /\ pending_tagpackets' = DropOverrun(q)
    /\ num_queue_overruns' =
           IF Len(q) > MAX_PENDING_TAGPACKETS
           THEN num_queue_overruns + 1 ELSE num_queue_overruns
    /\ num_dropped' =
           IF duplate \/ (~late /\ inhibited)
           THEN num_dropped + 1 ELSE num_dropped
    /\ num_late' =
           IF duplate \/ late
           THEN [num_late EXCEPT ![r] = @ + 1] ELSE num_late
    /\ late_score' =
           IF duplate THEN late_score
           ELSE IF ~late
                THEN IF inhibited THEN late_score
                     ELSE LateScoreDecrease(late_score)
                ELSE LateScoreIncrease(late_score)

\* the supervisor thread delivers a completed AF packet of source r
PushTagpacket ==
    /\ UNCHANGED << main_vars, num_connects, num_poll_timeout >>
    /\ running
    /\ push_budget > 0
    /\ \E r \in Hosts, dlfc \in Dlfcs, ts \in Timestamps :
          push_tagpacket(NewTagpacket(r, dlfc, ts), r)
    /\ push_budget' = push_budget - 1
    /\ UNCHANGED << settings, edi_enabled, running, most_recent_timestamp,
                    output_inhibit_until, show_backoff_ended_message,
                    num_dlfc_discontinuities, num_frames, pc, tagpacket,
                    prev_dlfc_valid, prev_dlfc, wake_at, system_now,
                    steady_now, pop_budget, num_popped, sent >>

-----------------------------------------------------------------------------
(* EDISender::inhibit, EDISender::reset_counters, EDISender::update_settings *)

\* an inhibit() that leaves the pending packets in the queue
inhibit_KeepQueue ==
    /\ output_inhibit_until' = steady_now + settings.backoff
    /\ pending_tagpackets' = pending_tagpackets
    /\ late_score' = 0

\* inhibit(): start the backoff window, clear the queue, reset the score
inhibit ==
    /\ output_inhibit_until' = steady_now + settings.backoff
    /\ pending_tagpackets' = << >>
    /\ late_score' = 0

\* the RC command "reset counters": Receiver::reset_counters and
\* a reset that leaves the counters of the supervisor and of the sources
rc_reset_counters_SenderOnly ==
    /\ num_dropped' = 0
    /\ num_queue_overruns' = 0
    /\ num_dlfc_discontinuities' = 0
    /\ num_frames' = 0
    /\ late_score' = 0
    /\ num_late' = [h \in Hosts |-> 0]
    /\ UNCHANGED << num_connects, num_poll_timeout >>

\* source_t::reset_counters of every receiver, EDISender::reset_counters
rc_reset_counters ==
    /\ num_dropped' = 0
    /\ num_queue_overruns' = 0
    /\ num_dlfc_discontinuities' = 0
    /\ num_frames' = 0
    /\ late_score' = 0
    /\ num_late' = [h \in Hosts |-> 0]
    /\ num_connects' = [i \in Sources |-> 0]
    /\ num_poll_timeout' = 0

\* the RC command "reset counters" arrives
ResetCounters ==
    /\ running
    /\ rc_reset_counters
    /\ UNCHANGED main_vars
    /\ UNCHANGED << settings, edi_enabled, running, pending_tagpackets,
                    most_recent_timestamp, output_inhibit_until,
                    show_backoff_ended_message, pc, tagpacket,
                    prev_dlfc_valid, prev_dlfc, wake_at, system_now,
                    steady_now, push_budget, pop_budget, num_popped, sent >>

\* the RC commands "set delay" and "set backoff" reach update_settings
UpdateSettings ==
    /\ UNCHANGED << main_vars, num_connects, num_poll_timeout >>
    /\ running
    /\ \E d \in DelayValues, b \in BackoffValues :
          /\ << d, b >> # << settings.delay_ms, settings.backoff >>
          /\ settings' = [settings EXCEPT !.delay_ms = d, !.backoff = b]
    /\ UNCHANGED << edi_enabled, running, pending_tagpackets,
                    most_recent_timestamp, late_score, output_inhibit_until,
                    show_backoff_ended_message, num_dropped,
                    num_queue_overruns, num_dlfc_discontinuities, num_frames,
                    num_late, pc, tagpacket, prev_dlfc_valid, prev_dlfc,
                    wake_at, system_now, steady_now, push_budget, pop_budget,
                    num_popped, sent >>

-----------------------------------------------------------------------------
(* EDISender::process and EDISender::send_tagpacket: the transmitter thread *)

\* the head of process()'s loop with a pending packet: take the front.
\* (With an empty queue the thread sleeps 1 ms and comes back here.)
ProcessPop ==
    /\ UNCHANGED << main_vars, num_connects, num_poll_timeout >>
    /\ pc = "loop"
    /\ running
    /\ Len(pending_tagpackets) > 0
    /\ pop_budget > 0
    /\ pop_budget' = pop_budget - 1
    /\ tagpacket' = Head(pending_tagpackets)
    /\ most_recent_timestamp' = Head(pending_tagpackets).timestamp
    /\ pending_tagpackets' = Tail(pending_tagpackets)
    /\ num_popped' = num_popped + 1
    /\ pc' = "check"
    /\ UNCHANGED << settings, edi_enabled, running, late_score,
                    output_inhibit_until, show_backoff_ended_message,
                    num_dropped, num_queue_overruns,
                    num_dlfc_discontinuities, num_frames, num_late,
                    prev_dlfc_valid, prev_dlfc, wake_at, system_now,
                    steady_now, push_budget, sent >>

\* a loop that leaves only once the queue is drained
ProcessExit_WhenDrained ==
    /\ UNCHANGED << main_vars, num_connects, num_poll_timeout >>
    /\ pc \in {"loop", "check"}
    /\ ~running
    /\ pending_tagpackets = << >>
    /\ pc' = "done"
    /\ UNCHANGED << settings, edi_enabled, running, pending_tagpackets,
                    most_recent_timestamp, late_score, output_inhibit_until,
                    show_backoff_ended_message, num_dropped,
                    num_queue_overruns, num_dlfc_discontinuities, num_frames,
                    num_late, tagpacket, prev_dlfc_valid, prev_dlfc, wake_at,
                    system_now, steady_now, push_budget, pop_budget, num_popped,
                    sent >>

\* the loop condition or the check after the pop finds _running cleared
ProcessExit ==
    /\ UNCHANGED << main_vars, num_connects, num_poll_timeout >>
    /\ pc \in {"loop", "check"}
    /\ ~running
    /\ pc' = "done"
    /\ UNCHANGED << settings, edi_enabled, running, pending_tagpackets,
                    most_recent_timestamp, late_score, output_inhibit_until,
                    show_backoff_ended_message, num_dropped,
                    num_queue_overruns, num_dlfc_discontinuities, num_frames,
                    num_late, tagpacket, prev_dlfc_valid, prev_dlfc, wake_at,
                    system_now, steady_now, push_budget, pop_budget, num_popped,
                    sent >>

\* a DLFC check that takes the first packet and the packet after a
\* discontinuity for checked ones
DlfcDiscontinuity_AlwaysValid ==
    ((prev_dlfc + 1) % DLFC_MODULUS) # tagpacket.dlfc

\* a DLFC check that does not wrap at DLFC_MODULUS
DlfcDiscontinuity_NoWrap ==
    prev_dlfc_valid /\ (prev_dlfc + 1) # tagpacket.dlfc

\* the DLFC of the popped packet does not follow the previous one
DlfcDiscontinuity ==
    prev_dlfc_valid /\ ((prev_dlfc + 1) % DLFC_MODULUS) # tagpacket.dlfc

\* the DLFC continuity check of process()
ProcessCheck ==
    /\ UNCHANGED << main_vars, num_connects, num_poll_timeout >>
    /\ pc = "check"
    /\ running
    /\ IF DlfcDiscontinuity
       THEN /\ num_dlfc_discontinuities' = num_dlfc_discontinuities + 1
            /\ pc' = "inhibit"
            /\ UNCHANGED << prev_dlfc_valid, prev_dlfc >>
       ELSE /\ prev_dlfc_valid' = TRUE
            /\ prev_dlfc' = tagpacket.dlfc
            /\ pc' = "send"
            /\ UNCHANGED num_dlfc_discontinuities
    /\ UNCHANGED << settings, edi_enabled, running, pending_tagpackets,
                    most_recent_timestamp, late_score, output_inhibit_until,
                    show_backoff_ended_message, num_dropped,
                    num_queue_overruns, num_frames, num_late, tagpacket,
                    wake_at, system_now, steady_now, push_budget, pop_budget,
                    num_popped, sent >>

\* process() calls inhibit() after a discontinuity
ProcessInhibit ==
    /\ UNCHANGED << main_vars, num_connects, num_poll_timeout >>
    /\ pc = "inhibit"
    /\ inhibit
    /\ prev_dlfc_valid' = FALSE
    /\ prev_dlfc' = tagpacket.dlfc
    /\ pc' = "send"
    /\ UNCHANGED << settings, edi_enabled, running, most_recent_timestamp,
                    show_backoff_ended_message, num_dropped,
                    num_queue_overruns, num_dlfc_discontinuities, num_frames,
                    num_late, tagpacket, wake_at, system_now, steady_now,
                    push_budget, pop_budget, num_popped, sent >>

\* the late flag of send_tagpacket
SendLate(tp) ==
    /\ has_value(settings.delay_ms)
    /\ to_system_clock(tp.timestamp) + value_of(settings.delay_ms) < system_now

\* a wait that forgets the delay
WaitTime_NoDelay(tp) == to_system_clock(tp.timestamp) - system_now

\* wait_time of send_tagpacket: from now to the release time of tp
WaitTime(tp) ==
    to_system_clock(tp.timestamp) + value_of(settings.delay_ms) - system_now

\* an output step that does not count the packet it drops while inhibited
SendOutput_DropUncounted ==
    IF steady_now < output_inhibit_until
    THEN /\ show_backoff_ended_message' = TRUE
         /\ UNCHANGED << num_dropped, num_frames >>
    ELSE /\ show_backoff_ended_message' = FALSE
         /\ num_frames' = IF edi_enabled THEN num_frames + 1 ELSE num_frames
         /\ UNCHANGED num_dropped

\* send_tagpacket after the release time: inhibit check and output
SendOutput ==
    IF steady_now < output_inhibit_until
    THEN /\ show_backoff_ended_message' = TRUE
         /\ num_dropped' = num_dropped + 1
         /\ UNCHANGED num_frames
    ELSE /\ show_backoff_ended_message' = FALSE
         /\ num_frames' = IF edi_enabled THEN num_frames + 1 ELSE num_frames
         /\ UNCHANGED num_dropped

\* send_tagpacket(tagpacket) up to the sleep, and to its end when it does
\* not sleep
SendTagpacket ==
    /\ UNCHANGED << main_vars, num_connects, num_poll_timeout >>
    /\ pc = "send"
    /\ IF has_value(settings.delay_ms) /\ ~SendLate(tagpacket)
       THEN /\ wake_at' = steady_now + WaitTime(tagpacket)
            /\ pc' = "sleep"
            /\ UNCHANGED << show_backoff_ended_message, num_dropped,
                            num_frames, tagpacket >>
       ELSE IF SendLate(tagpacket) /\ settings.drop_late
            THEN /\ num_dropped' = num_dropped + 1
                 /\ pc' = "loop"
                 /\ tagpacket' = EmptyTagpacket
                 /\ UNCHANGED << show_backoff_ended_message, num_frames,
                                 wake_at >>
            ELSE /\ SendOutput
                 /\ pc' = "loop"
                 /\ tagpacket' = EmptyTagpacket
                 /\ UNCHANGED wake_at
    /\ UNCHANGED << settings, edi_enabled, running, pending_tagpackets,
                    most_recent_timestamp, late_score, output_inhibit_until,
                    num_queue_overruns, num_dlfc_discontinuities, num_late,
                    prev_dlfc_valid, prev_dlfc, system_now,
                    steady_now, push_budget, pop_budget, num_popped, sent >>

\* sleep_for returns: the rest of send_tagpacket
SendWake ==
    /\ UNCHANGED << main_vars, num_connects, num_poll_timeout >>
    /\ pc = "sleep"
    /\ steady_now >= wake_at
    /\ SendOutput
    /\ pc' = "loop"
    /\ tagpacket' = EmptyTagpacket
    /\ UNCHANGED << settings, edi_enabled, running, pending_tagpackets,
                    most_recent_timestamp, late_score, output_inhibit_until,
                    num_queue_overruns, num_dlfc_discontinuities, num_late,
                    prev_dlfc_valid, prev_dlfc, wake_at,
                    system_now, steady_now, push_budget, pop_budget, num_popped,
                    sent >>

\* ~EDISender clears _running
Shutdown ==
    /\ UNCHANGED << main_vars, num_connects, num_poll_timeout >>
    /\ running
    /\ running' = FALSE
    /\ UNCHANGED << settings, edi_enabled, pending_tagpackets,
                    most_recent_timestamp, late_score, output_inhibit_until,
                    show_backoff_ended_message, num_dropped,
                    num_queue_overruns, num_dlfc_discontinuities, num_frames,
                    num_late, pc, tagpacket, prev_dlfc_valid, prev_dlfc,
                    wake_at, system_now, steady_now, push_budget, pop_budget,
                    num_popped, sent >>

\* both clocks advance
Tick ==
    /\ UNCHANGED << main_vars, num_connects, num_poll_timeout >>
    /\ steady_now < MaxTicks * TickMs
    /\ steady_now' = steady_now + TickMs
    /\ system_now' = system_now + TickMs
    /\ UNCHANGED << settings, edi_enabled, running, pending_tagpackets,
                    most_recent_timestamp, late_score, output_inhibit_until,
                    show_backoff_ended_message, num_dropped,
                    num_queue_overruns, num_dlfc_discontinuities, num_frames,
                    num_late, pc, tagpacket, prev_dlfc_valid, prev_dlfc,
                    wake_at, push_budget, pop_budget, num_popped, sent >>

-----------------------------------------------------------------------------
(* Specification *)

\* the data a Receiver collects for the AF packet being decoded: no
\* protocol, no frame characterisation, an empty FIC, no subchannel
\* (m_subchannels is the length of the list)
NewCollector ==
    [m_proto_valid |-> FALSE, m_fc_valid |-> FALSE, m_fic |-> FALSE,
     m_fc_dlfc |-> 0, m_subchannels |-> 0]

\* history before any AF packet was decoded
NoDecoded ==
    [source |-> 0, tags |-> << >>, timestamp |-> DefaultTimestamp,
     callbacks |-> 0, tp |-> EmptyTagpacket, faults |-> 0]

\* history before any ETI frame was reconstructed
NoEti == [dlfc |-> 0, fsync |-> << >>]

\* a thread that is in no call of the EDISender
Idle == [op |-> "idle", k |-> 0]

\* history before any call of encode_zmq_frame
NoZmq == [fp |-> 0, written |-> FALSE, thrown |-> FALSE, calls |-> 0]

\* Main and its receivers after construction, before Main::start enters its
\* loop: merging mode, every source enabled, none active yet, no connection
InitMain ==
    /\ mode = "merging"
    /\ enabled = [i \in Sources |-> TRUE]
    /\ active = [i \in Sources |-> FALSE]
    /\ connected = [i \in Sources |-> FALSE]
    /\ num_connects = [i \in Sources |-> 0]
    /\ sock_valid = [i \in Sources |-> FALSE]
    /\ edi_decoder = [i \in Sources |-> FALSE]
    /\ most_recent_rx_time = [i \in Sources |-> 0]
    /\ reconnect_at = [i \in Sources |-> 0]
    /\ last_connect_at = [i \in Sources |-> << >>]
    /\ closed_at = [i \in Sources |-> << >>]
    /\ collector = [i \in Sources |-> NewCollector]
    /\ decoded = NoDecoded
    /\ main_pc = "start"
    /\ iter_budget = 0
    /\ num_poll_timeout = 0
    /\ rc_command = "none"
    /\ m_expected_next_fp = 0
    /\ zmq_out = NoZmq
    /\ eti_frame = NoEti
    /\ mutex = "free"
    /\ sup_at = Idle
    /\ tx_at = [op |-> "process", k |-> 1]

\* a started EDISender outside any backoff, whose transmitter thread stands
\* at the head of its loop
InitSender ==
    /\ settings \in [delay_ms : DelayValues, drop_late : BOOLEAN,
                     backoff : BackoffValues]
    /\ edi_enabled = TRUE
    /\ running = TRUE
    /\ output_inhibit_until = 0
    /\ show_backoff_ended_message = FALSE
    /\ num_dropped = 0
    /\ num_queue_overruns = 0
    /\ num_dlfc_discontinuities = 0
    /\ pc = "loop"
    /\ tagpacket = EmptyTagpacket
    /\ wake_at = 0
    /\ system_now = SystemStart
    /\ sent = [h \in Hosts |-> 0]

\* a started EDISender that has seen no late frame, under a Main that has
\* not entered its loop
InitCommon ==
    /\ InitSender
    /\ num_late = [h \in Hosts |-> 0]
    /\ steady_now = 0
    /\ InitMain

\* the transmitter thread has not popped a packet yet
InitFresh ==
    /\ most_recent_timestamp = DefaultTimestamp
    /\ num_frames = 0
    /\ prev_dlfc_valid = FALSE
    /\ prev_dlfc = 0
    /\ num_popped = 0

\* the state after construction and start()
Init ==
    /\ InitCommon
    /\ InitFresh
    /\ pending_tagpackets = << >>
    /\ late_score = 0
    /\ push_budget = MaxPushes
    /\ pop_budget = MaxPops

Next ==
    \/ PushTagpacket
    \/ ResetCounters
    \/ UpdateSettings
    \/ ProcessPop
    \/ ProcessExit
    \/ ProcessCheck
    \/ ProcessInhibit
    \/ SendTagpacket
    \/ SendWake
    \/ Shutdown
    \/ Tick

Spec == Init /\ [][Next]_vars

-----------------------------------------------------------------------------
(* The queue at its limit *)

\* n pending packets of source "A", 1/16384 s apart from second 1 on, with
\* consecutive DLFC: what n calls of push_tagpacket leave while the
\* transmitter thread has not yet run
PendingFrames(n) ==
    [i \in 1..n |->
        [hostnames |-> << "A" >>, afpacket |-> << "A" >>,
         dlfc |-> (i - 1) % DLFC_MODULUS,
         timestamp |-> [seconds |-> 1, utco |-> 0,
                        tsta |-> (i - 1) * TSTA_LOW_BITS]]]

\* a started EDISender whose queue holds MAX_PENDING_TAGPACKETS packets, or
\* one less. Before they were pushed, the transmitter sent one frame, which
\* carried no seconds and the DLFC before that of the first pending packet.
InitFull ==
    /\ InitCommon
    /\ most_recent_timestamp = DefaultTimestamp
    /\ num_frames = 1
    /\ prev_dlfc_valid = TRUE
    /\ prev_dlfc = DLFC_MODULUS - 1
    /\ num_popped = 1
    /\ \E n \in {MAX_PENDING_TAGPACKETS - 1, MAX_PENDING_TAGPACKETS} :
          pending_tagpackets = PendingFrames(n)
    /\ late_score = 0
    /\ push_budget = FullPushes
    /\ pop_budget = FullPops

\* the operations that act on the queue: pushes by the supervisor thread and
\* the transmitter thread's loop, under each of the settings InitFull draws
NextFull ==
    \/ PushTagpacket
    \/ ProcessPop
    \/ ProcessCheck
    \/ ProcessInhibit
    \/ SendTagpacket
    \/ SendWake
    \/ Tick

SpecFull == InitFull /\ [][NextFull]_vars

-----------------------------------------------------------------------------
(* The late score near its limits *)

\* a late score the EDISender can have reached: 20 late packets, then 5
\* on-time ones
LateScoreStarts == {LATE_SCORE_MAX - 5}

InitScore ==
    /\ InitCommon
    /\ InitFresh
    /\ pending_tagpackets = << >>
    /\ late_score \in LateScoreStarts
    /\ push_budget = MaxPushes
    /\ pop_budget = MaxPops

SpecScore == InitScore /\ [][Next]_vars

-----------------------------------------------------------------------------
(* Merging mode: two sources deliver the same frames *)

\* frame k as source h delivers it: frames are half a second apart from
\* second 1 on, with consecutive DLFC
MergeFrame(k, h) ==
    NewTagpacket(h, (k - 1) % DLFC_MODULUS,
                 [seconds |-> 1 + (k - 1) \div 2, utco |-> 0,
                  tsta |-> ((k - 1) % 2) * 8192 * TSTA_LOW_BITS])

\* the receiver of source h completes its next frame and the tagpacket
\* callback pushes it
MergePush ==
    /\ UNCHANGED << main_vars, num_connects, num_poll_timeout >>
    /\ running
    /\ \E h \in Hosts :
          /\ sent[h] < NumFrames
          /\ push_tagpacket(MergeFrame(sent[h] + 1, h), h)
          /\ sent' = [sent EXCEPT ![h] = @ + 1]
    /\ UNCHANGED << settings, edi_enabled, running, most_recent_timestamp,
                    output_inhibit_until, show_backoff_ended_message,
                    num_dlfc_discontinuities, num_frames, pc, tagpacket,
                    prev_dlfc_valid, prev_dlfc, wake_at, system_now,
                    steady_now, push_budget, pop_budget, num_popped >>

InitMerge ==
    /\ InitCommon
    /\ InitFresh
    /\ pending_tagpackets = << >>
    /\ late_score = 0
    /\ push_budget = 0
    /\ pop_budget = 2 * NumFrames

NextMerge ==
    \/ MergePush
    \/ ProcessPop
    \/ ProcessCheck
    \/ ProcessInhibit
    \/ SendTagpacket
    \/ SendWake
    \/ Tick

SpecMerge == InitMerge /\ [][NextMerge]_vars

-----------------------------------------------------------------------------
(* DLFC continuity: one source whose frame counter wraps *)

\* frame counters around the wrap of the DLFC
DlfcWrapValues == {DLFC_MODULUS - 1, 0, 1}

\* the receiver of source "A" completes a frame and the tagpacket callback
\* pushes it
PushDlfc ==
    /\ UNCHANGED << main_vars, num_connects, num_poll_timeout >>
    /\ running
    /\ push_budget > 0
    /\ \E dlfc \in DlfcWrapValues, ts \in Timestamps :
          push_tagpacket(NewTagpacket("A", dlfc, ts), "A")
    /\ push_budget' = push_budget - 1
    /\ UNCHANGED << settings, edi_enabled, running, most_recent_timestamp,
                    output_inhibit_until, show_backoff_ended_message,
                    num_dlfc_discontinuities, num_frames, pc, tagpacket,
                    prev_dlfc_valid, prev_dlfc, wake_at, system_now,
                    steady_now, pop_budget, num_popped, sent >>

InitDlfc ==
    /\ InitCommon
    /\ InitFresh
    /\ pending_tagpackets = << >>
    /\ late_score = 0
    /\ push_budget = MaxPushes
    /\ pop_budget = MaxPops

NextDlfc ==
    \/ PushDlfc
    \/ ProcessPop
    \/ ProcessCheck
    \/ ProcessInhibit
    \/ SendTagpacket
    \/ SendWake
    \/ Tick

SpecDlfc == InitDlfc /\ [][NextDlfc]_vars

-----------------------------------------------------------------------------
(* Single source, no loss *)

\* frames the single source delivers
SingleFrames == NumFrames - 1

\* frame k of the single source: half a second apart from second 1.5 on,
\* with consecutive DLFC that wrap after the first frame
SingleFrame(k) ==
    NewTagpacket("A", (DLFC_MODULUS - 2 + k) % DLFC_MODULUS,
                 MergeFrame(k + 1, "A").timestamp)

\* the receiver completes its next frame before the frame's release time and
\* the tagpacket callback pushes it
SinglePush ==
    /\ UNCHANGED << main_vars, num_connects, num_poll_timeout >>
    /\ running
    /\ sent["A"] < SingleFrames
    /\ LET tp == SingleFrame(sent["A"] + 1) IN
          /\ has_value(settings.delay_ms)
                => system_now < to_system_clock(tp.timestamp)
                                   + value_of(settings.delay_ms)
          /\ push_tagpacket(tp, "A")
    /\ sent' = [sent EXCEPT !["A"] = @ + 1]
    /\ UNCHANGED << settings, edi_enabled, running, most_recent_timestamp,
                    output_inhibit_until, show_backoff_ended_message,
                    num_dlfc_discontinuities, num_frames, pc, tagpacket,
                    prev_dlfc_valid, prev_dlfc, wake_at, system_now,
                    steady_now, push_budget, pop_budget, num_popped >>

\* the transmitter thread has nothing to do but wait: process() polls an
\* empty queue every millisecond, or send_tagpacket sleeps
TransmitterIdle ==
    \/ pc = "loop" /\ pending_tagpackets = << >>
    \/ pc = "sleep" /\ steady_now < wake_at

\* the clocks advance while the transmitter thread waits: its steps take no
\* time on the scale of TickMs
TickIdle == TransmitterIdle /\ Tick

InitSingle ==
    /\ InitCommon
    /\ InitFresh
    /\ pending_tagpackets = << >>
    /\ late_score = 0
    /\ push_budget = 0
    /\ pop_budget = SingleFrames

\* no discontinuity arises from this source, so process() does not reach
\* inhibit()
NextSingle ==
    \/ SinglePush
    \/ ProcessPop
    \/ ProcessCheck
    \/ SendTagpacket
    \/ SendWake
    \/ TickIdle

\* the transmitter thread keeps running and time keeps passing
FairSingle ==
    /\ WF_vars(ProcessPop)
    /\ WF_vars(ProcessCheck)
    /\ WF_vars(SendTagpacket)
    /\ WF_vars(SendWake)
    /\ WF_vars(TickIdle)

SpecSingle == InitSingle /\ [][NextSingle]_vars /\ FairSingle

-----------------------------------------------------------------------------
(* The destructor: shutdown of the transmitter thread *)

\* push_tagpacket does not look at _running: a push that arrives while the
\* destructor waits in join()
PushDuringShutdown ==
    /\ UNCHANGED << main_vars, num_connects, num_poll_timeout >>
    /\ ~running
    /\ push_budget > 0
    /\ \E r \in Hosts, dlfc \in Dlfcs, ts \in Timestamps :
          push_tagpacket(NewTagpacket(r, dlfc, ts), r)
    /\ push_budget' = push_budget - 1
    /\ UNCHANGED << settings, edi_enabled, running, most_recent_timestamp,
                    output_inhibit_until, show_backoff_ended_message,
                    num_dlfc_discontinuities, num_frames, pc, tagpacket,
                    prev_dlfc_valid, prev_dlfc, wake_at, system_now,
                    steady_now, pop_budget, num_popped, sent >>

\* a started EDISender that drops late frames
InitStop ==
    /\ Init
    /\ settings.drop_late

\* pushes, the transmitter thread and the destructor at any moment
NextStop ==
    \/ PushTagpacket
    \/ PushDuringShutdown
    \/ ProcessPop
    \/ ProcessExit
    \/ ProcessCheck
    \/ ProcessInhibit
    \/ SendTagpacket
    \/ SendWake
    \/ Shutdown
    \/ Tick

\* the transmitter thread keeps running and time keeps passing
FairStop ==
    /\ WF_vars(ProcessExit)
    /\ WF_vars(ProcessCheck)
    /\ WF_vars(ProcessInhibit)
    /\ WF_vars(SendTagpacket)
    /\ WF_vars(SendWake)
    /\ WF_vars(Tick)

SpecStop == InitStop /\ [][NextStop]_vars /\ FairStop

-----------------------------------------------------------------------------
(* Main::start: the supervisor thread and its receivers *)

\* EDISender::is_running_ok
is_running_ok == late_score < LATE_SCORE_THRESHOLD

\* EDISender::backoff_milliseconds_remaining, the clocks being in
\* milliseconds
backoff_milliseconds_remaining ==
    IF steady_now < output_inhibit_until
    THEN steady_now - output_inhibit_until
    ELSE 0

\* "in_backoff" of the reply to the RC request "stats"
in_backoff == backoff_milliseconds_remaining > 0

\* the sources a marks active, and the first source of a non-empty set in
\* list order
ActiveSources(a) == {i \in Sources : a[i]}

EnabledSources == {i \in Sources : enabled[i]}

FirstOf(S) == CHOOSE i \in S : \A j \in S : i <= j

\* Main::ensure_one_active on the active flags a
ensure_one_active(a) ==
    IF ActiveSources(a) = {} /\ EnabledSources # {}
    THEN [a EXCEPT ![FirstOf(EnabledSources)] = TRUE]
    ELSE a

\* the k-th source after rx when rotating through the list
Rotate(rx, k) == ((rx - 1 + k) % NumSources) + 1

\* a rotation that restarts at the head of the list
NextEnabled_FromListHead(rx) ==
    LET others == EnabledSources \ {rx}
    IN  IF others = {} THEN 0 ELSE FirstOf(others)

\* the source rx2 the rotation stops at, 0 if it comes back to rx
NextEnabled(rx) ==
    LET ks == {k \in 1..(NumSources - 1) : enabled[Rotate(rx, k)]}
    IN  IF ks = {} THEN 0 ELSE Rotate(rx, FirstOf(ks))

\* a switch that leaves rx active
switch_to_KeepOld(a, rx, rx2) == [a EXCEPT ![rx2] = TRUE]

\* the switch from rx to rx2
switch_to(a, rx, rx2) == [a EXCEPT ![rx] = FALSE, ![rx2] = TRUE]

\* the switching decision of one iteration, on the first active receiver
SwitchDecision ==
    IF ActiveSources(active) = {} THEN active
    ELSE
        LET rx == FirstOf(ActiveSources(active))
            force_switch == ~enabled[rx]
            unset == IF force_switch THEN [active EXCEPT ![rx] = FALSE]
                     ELSE active
            packet_age == steady_now - most_recent_rx_time[rx]
            output_unhappy == ~is_running_ok
            rx2 == NextEnabled(rx)
        IN  IF force_switch \/ output_unhappy \/ packet_age > switch_delay
            THEN IF rx2 # 0
                 THEN switch_to(unset, rx, rx2)
                 ELSE ensure_one_active(unset)
            ELSE unset

\* what the supervisor leaves alone: the transmitter thread's state
sender_vars == << settings, edi_enabled, running, most_recent_timestamp,
                  output_inhibit_until, show_backoff_ended_message,
                  num_dlfc_discontinuities, num_frames, pc, tagpacket,
                  prev_dlfc_valid, prev_dlfc, wake_at, pop_budget,
                  num_popped, sent >>

\* what a call of push_tagpacket may change
push_vars == << pending_tagpackets, late_score, num_dropped,
                num_queue_overruns, num_late >>

\* Main::start before its loop
StartLoop ==
    /\ UNCHANGED rc_command
    /\ UNCHANGED << zmq_vars, lock_vars >>
    /\ UNCHANGED num_poll_timeout
    /\ main_pc = "start"
    /\ active' = IF mode = "switching" THEN ensure_one_active(active)
                 ELSE active
    /\ main_pc' = "decide"
    /\ UNCHANGED << sender_vars, push_vars, system_now, steady_now,
                    push_budget, mode, enabled, connected, num_connects,
                    sock_valid, edi_decoder, most_recent_rx_time,
                    reconnect_at, last_connect_at, closed_at,
                    collector, decoded, iter_budget >>

\* the head of an iteration: the decision by mode
Decide ==
    /\ UNCHANGED rc_command
    /\ UNCHANGED << zmq_vars, lock_vars >>
    /\ UNCHANGED num_poll_timeout
    /\ main_pc = "decide"
    /\ running
    /\ iter_budget > 0
    /\ iter_budget' = iter_budget - 1
    /\ active' = IF mode = "switching" THEN SwitchDecision ELSE enabled
    /\ main_pc' = "tick"
    /\ UNCHANGED << sender_vars, push_vars, system_now, steady_now,
                    push_budget, mode, enabled, connected, num_connects,
                    sock_valid, edi_decoder, most_recent_rx_time,
                    reconnect_at, last_connect_at, closed_at,
                    collector, decoded >>

\* Receiver::tick attempts a connection
Connecting(i) == active[i] /\ ~sock_valid[i] /\ reconnect_at[i] < steady_now

\* Receiver::tick closes the socket of a source that is not active
Disconnecting(i) == ~active[i] /\ sock_valid[i]

\* a tick that leaves source.connected as it is
tick_connected_Keep(i) == connected[i]

\* source.connected after Receiver::tick
tick_connected(i) == IF Disconnecting(i) THEN FALSE ELSE connected[i]

\* sock.valid() after Receiver::tick, ok being the outcome of connect()
tick_sock_valid(i, ok) ==
    IF Connecting(i) THEN ok
    ELSE IF Disconnecting(i) THEN FALSE
    ELSE sock_valid[i]

\* tick() of every receiver, in list order
TickReceivers ==
    /\ UNCHANGED rc_command
    /\ UNCHANGED << zmq_vars, lock_vars >>
    /\ UNCHANGED num_poll_timeout
    /\ main_pc = "tick"
    /\ \E ok \in [Sources -> BOOLEAN] :
          /\ \A i \in Sources : ~Connecting(i) => ok[i]
          /\ sock_valid' = [i \in Sources |-> tick_sock_valid(i, ok[i])]
    /\ reconnect_at' = [i \in Sources |->
                           IF Connecting(i)
                           THEN reconnect_at[i] + RECONNECT_DELAY
                           ELSE reconnect_at[i]]
    /\ last_connect_at' = [i \in Sources |->
                              IF Connecting(i) THEN << steady_now >>
                              ELSE last_connect_at[i]]
    /\ connected' = [i \in Sources |-> tick_connected(i)]
    /\ edi_decoder' = [i \in Sources |->
                          IF Disconnecting(i) THEN FALSE ELSE edi_decoder[i]]
    /\ main_pc' = "poll"
    /\ UNCHANGED << sender_vars, push_vars, system_now, steady_now,
                    push_budget, mode, enabled, active, num_connects,
                    most_recent_rx_time, closed_at, collector, decoded,
                    iter_budget >>

\* poll() returns after dt milliseconds
PollReturns(dt) ==
    /\ main_pc = "poll"
    /\ steady_now' = steady_now + dt
    /\ system_now' = system_now + dt
    /\ main_pc' = "decide"

\* the times poll() can take: an event at once, or at the timeout
PollTimes == {0, POLL_TIMEOUT_MS}

\* the receivers poll() reports readable: any set of those with a socket
Readable == SUBSET {i \in Sources : sock_valid[i]}

\* a receive() that keeps the decoder when it closes the socket
receive_decoder_KeepOnClose(i, rs, ok) ==
    IF i \in ok THEN TRUE ELSE edi_decoder[i]

\* m_edi_decoder after receive(): made on the first bytes, reset on a close
receive_decoder(i, rs, ok) ==
    IF i \in rs THEN i \in ok ELSE edi_decoder[i]

\* a receive() that counts every read as a connect
receive_num_connects_EveryRead(i, ok) ==
    IF i \in ok THEN num_connects[i] + 1 ELSE num_connects[i]

\* source.num_connects after receive(): counted when bytes arrive on a
\* source that is not connected
receive_num_connects(i, ok) ==
    IF i \in ok /\ ~connected[i]
    THEN num_connects[i] + 1
    ELSE num_connects[i]

\* Receiver::receive of every receiver in rs at time now; those in ok read
\* bytes, the others fail
receive(rs, ok, now) ==
    /\ sock_valid' = [i \in Sources |->
                         IF i \in rs \ ok THEN FALSE ELSE sock_valid[i]]
    /\ edi_decoder' = [i \in Sources |-> receive_decoder(i, rs, ok)]
    /\ closed_at' = [i \in Sources |->
                        IF i \in rs \ ok THEN << now >> ELSE closed_at[i]]
    /\ connected' = [i \in Sources |->
                        IF i \in rs THEN i \in ok ELSE connected[i]]
    /\ reconnect_at' = [i \in Sources |->
                           IF i \in rs \ ok THEN now + RECONNECT_DELAY
                           ELSE reconnect_at[i]]
    /\ most_recent_rx_time' = [i \in Sources |->
                                  IF i \in ok THEN now
                                  ELSE most_recent_rx_time[i]]
    /\ num_connects' = [i \in Sources |-> receive_num_connects(i, ok)]

\* poll() times out: no descriptor is readable
PollTimeout ==
    /\ rc_command' = "none"
    /\ UNCHANGED << zmq_vars, lock_vars >>
    /\ num_poll_timeout' = num_poll_timeout + POLL_TIMEOUT_FRAMES
    /\ PollReturns(POLL_TIMEOUT_MS)
    /\ UNCHANGED << sender_vars, push_vars, push_budget, mode, enabled,
                    active, connected, num_connects, sock_valid,
                    edi_decoder, most_recent_rx_time, reconnect_at,
                    last_connect_at, closed_at, collector, decoded,
                    iter_budget >>

\* poll() reports receivers readable: each reads bytes that complete no
\* AF packet, or fails
PollReceive ==
    /\ rc_command' = "none"
    /\ UNCHANGED << zmq_vars, lock_vars >>
    /\ UNCHANGED num_poll_timeout
    /\ \E dt \in PollTimes, rs \in Readable \ {{}} :
          /\ PollReturns(dt)
          /\ \E ok \in SUBSET rs : receive(rs, ok, steady_now + dt)
    /\ UNCHANGED << sender_vars, push_vars, push_budget, mode, enabled,
                    active, last_connect_at, collector, decoded, iter_budget >>

\* poll() reports one receiver readable, whose bytes complete an AF packet:
\* the decoder calls push_tagpacket
PollReceiveFrame ==
    /\ rc_command' = "none"
    /\ UNCHANGED << zmq_vars, lock_vars >>
    /\ UNCHANGED num_poll_timeout
    /\ push_budget > 0
    /\ PollReturns(0)
    /\ \E i \in Sources, ts \in Timestamps :
          /\ sock_valid[i]
          /\ receive({i}, {i}, steady_now)
          /\ push_tagpacket(NewTagpacket(SourceHost(i), 0, ts),
                            SourceHost(i))
    /\ push_budget' = push_budget - 1
    /\ UNCHANGED << sender_vars, mode, enabled, active, last_connect_at,
                    collector, decoded, iter_budget >>

\* poll() reports the RC socket readable: "set input enable" or "set input
\* disable" of one source
PollRcInput ==
    /\ rc_command' = "set input"
    /\ UNCHANGED << zmq_vars, lock_vars >>
    /\ UNCHANGED num_poll_timeout
    /\ \E dt \in PollTimes : PollReturns(dt)
    /\ \E i \in Sources, e \in BOOLEAN :
          enabled' = [enabled EXCEPT ![i] = e]
    /\ UNCHANGED << sender_vars, push_vars, push_budget, mode, active,
                    connected, num_connects, sock_valid, edi_decoder,
                    most_recent_rx_time, reconnect_at, last_connect_at,
                    closed_at, collector, decoded,
                    iter_budget >>

\* poll() reports the RC socket readable: "reset counters"
PollRcReset ==
    /\ rc_command' = "reset counters"
    /\ UNCHANGED << zmq_vars, lock_vars >>
    /\ PollReturns(0)
    /\ rc_reset_counters
    /\ UNCHANGED << settings, edi_enabled, running, pending_tagpackets,
                    most_recent_timestamp, output_inhibit_until,
                    show_backoff_ended_message, pc, tagpacket,
                    prev_dlfc_valid, prev_dlfc, wake_at, push_budget,
                    pop_budget, num_popped, sent, mode, enabled, active,
                    connected, sock_valid, edi_decoder,
                    most_recent_rx_time, reconnect_at, last_connect_at,
                    closed_at, collector, decoded,
                    iter_budget >>

\* late frames of source 1 that make the output not running ok
LateFrames == LATE_SCORE_THRESHOLD \div LATE_SCORE_INCREASE

\* Main::start is entered: no source active, no connection, nothing received
InitStart ==
    /\ main_pc = "start"
    /\ enabled \in [Sources -> BOOLEAN]
    /\ active = [i \in Sources |-> FALSE]
    /\ connected = [i \in Sources |-> FALSE]
    /\ num_connects = [i \in Sources |-> 0]
    /\ sock_valid = [i \in Sources |-> FALSE]
    /\ edi_decoder = [i \in Sources |-> FALSE]
    /\ most_recent_rx_time = [i \in Sources |-> 0]
    /\ reconnect_at = [i \in Sources |-> MainStart - 1]
    /\ last_connect_at = [i \in Sources |-> << >>]
    /\ closed_at = [i \in Sources |-> << >>]
    /\ collector = [i \in Sources |-> NewCollector]
    /\ decoded = NoDecoded
    /\ num_late = [h \in Hosts |-> 0]
    /\ late_score = 0

\* the monotonic clock when the receivers of a supervisor that has been in
\* its loop for RunningFor milliseconds were constructed
ConstructedAt == MainStart - RunningFor - 1

\* the head of an iteration in switching mode, RunningFor milliseconds after
\* the loop was entered, while source 1, connected in the first iteration,
\* has just delivered bytes and, so far, n late frames and no other
InitRunning(n) ==
    /\ mode = "switching"
    /\ main_pc = "decide"
    /\ enabled \in {e \in [Sources -> BOOLEAN] : e[1]}
    /\ active = [i \in Sources |-> i = 1]
    /\ connected = [i \in Sources |-> i = 1]
    /\ num_connects = [i \in Sources |-> IF i = 1 THEN 1 ELSE 0]
    /\ sock_valid = [i \in Sources |-> i = 1]
    /\ edi_decoder = [i \in Sources |-> i = 1]
    /\ most_recent_rx_time = [i \in Sources |-> IF i = 1 THEN MainStart ELSE 0]
    /\ reconnect_at = [i \in Sources |->
                          IF i = 1 THEN ConstructedAt + RECONNECT_DELAY
                          ELSE ConstructedAt]
    /\ last_connect_at = [i \in Sources |->
                             IF i = 1 THEN << ConstructedAt + 1 >>
                             ELSE << >>]
    /\ closed_at = [i \in Sources |-> << >>]
    /\ collector = [i \in Sources |-> NewCollector]
    /\ decoded = NoDecoded
    /\ num_late = [h \in Hosts |-> IF h = SourceHost(1) THEN n ELSE 0]
    /\ late_score = n * LATE_SCORE_INCREASE
    /\ n > 0 => has_value(settings.delay_ms)

\* the supervisor's scenario: either mode, the transmitter thread at rest
InitSwitch ==
    /\ InitSender
    /\ InitFresh
    /\ settings.drop_late
    /\ pending_tagpackets = << >>
    /\ steady_now = MainStart
    /\ push_budget = 1
    /\ pop_budget = 0
    /\ iter_budget = MaxIterations
    /\ num_poll_timeout = 0
    /\ rc_command = "none"
    /\ m_expected_next_fp = 0
    /\ zmq_out = NoZmq
    /\ eti_frame = NoEti
    /\ mutex = "free"
    /\ sup_at = Idle
    /\ tx_at = [op |-> "process", k |-> 1]
    /\ mode \in {"switching", "merging"}
    /\ InitStart \/ InitRunning(0) \/ InitRunning(LateFrames)

NextSwitch ==
    \/ StartLoop
    \/ Decide
    \/ TickReceivers
    \/ PollTimeout
    \/ PollReceive
    \/ PollReceiveFrame
    \/ PollRcInput
    \/ PollRcReset

SpecSwitch == InitSwitch /\ [][NextSwitch]_vars

-----------------------------------------------------------------------------
(* The supervisor while every source delivers frames *)

\* the counters of this scenario are kept modulo CounterWrap
CounterWrap == 4

\* the size of the buffer of Receiver::receive
bufsize == 32

\* the least AF packet assemble() accepts: the AF header and CRC, a *ptr TAG
\* and a deti TAG that holds the frame characterisation only
AFPACKET_HEADER_LEN == 10

MinAfPacket == AFPACKET_HEADER_LEN + 2 + (8 + 8) + (8 + 6)

\* one receive() on a decoder that holds no bytes completes no AF packet
FirstReceiveCompletes == bufsize >= MinAfPacket

\* the clocks of this scenario are kept relative to the present: after a
\* poll() of dt milliseconds a monotonic time point t lies dt further in the
\* past
Elapsed(t, dt) == t - dt

\* the same for a time point of which only "more than switch_delay ago" is
\* ever read
ElapsedAge(t, dt) ==
    LET old == steady_now - switch_delay - 1
    IN  IF t <= old THEN t
        ELSE IF t - dt < old THEN old ELSE t - dt

\* the head of an iteration of a supervisor that runs without end
DecideAgain ==
    /\ main_pc = "decide"
    /\ running
    /\ active' = IF mode = "switching" THEN SwitchDecision ELSE enabled
    /\ main_pc' = "tick"
    /\ UNCHANGED << zmq_vars, lock_vars, rc_command, num_poll_timeout >>
    /\ UNCHANGED << sender_vars, push_vars, system_now, steady_now,
                    push_budget, mode, enabled, connected, num_connects,
                    sock_valid, edi_decoder, most_recent_rx_time,
                    reconnect_at, last_connect_at, closed_at,
                    collector, decoded, iter_budget >>

\* tick() of every receiver when every source accepts connections
TickDelivering ==
    /\ TickReceivers
    /\ \A i \in Sources : Connecting(i) => sock_valid'[i]

\* Receiver::receive of every receiver in rs, which all read bytes
receive_bytes(rs) ==
    /\ edi_decoder' = [i \in Sources |-> i \in rs \/ edi_decoder[i]]
    /\ connected' = [i \in Sources |-> i \in rs \/ connected[i]]
    /\ most_recent_rx_time' = [i \in Sources |->
                                  IF i \in rs THEN steady_now
                                  ELSE most_recent_rx_time[i]]
    /\ num_connects' = [i \in Sources |->
                           receive_num_connects(i, rs) % CounterWrap]
    /\ UNCHANGED << sock_valid, closed_at, reconnect_at >>

\* the receivers with a socket: their sources deliver, poll() reports them
\* readable at once
Delivering == {i \in Sources : sock_valid[i]}

\* poll() returns at once and every receiver with a socket reads bytes that
\* complete no AF packet
PollBytes ==
    /\ rc_command' = "none"
    /\ UNCHANGED << zmq_vars, lock_vars, num_poll_timeout >>
    /\ Delivering # {}
    /\ PollReturns(0)
    /\ receive_bytes(Delivering)
    /\ UNCHANGED << sender_vars, push_vars, push_budget, mode, enabled,
                    active, last_connect_at, collector, decoded, iter_budget >>

\* poll() returns at once and a receiver reads the bytes that complete an AF
\* packet with a timestamp that is not late: its decoder holds the bytes of
\* an earlier receive() unless one buffer holds a whole packet
PollCompleteFrame ==
    /\ rc_command' = "none"
    /\ UNCHANGED << zmq_vars, lock_vars, num_poll_timeout >>
    /\ push_budget > 0
    /\ PollReturns(0)
    /\ \E i \in Delivering, ts \in Timestamps :
          LET tp == NewTagpacket(SourceHost(i), 0, ts)
          IN  /\ edi_decoder[i] \/ FirstReceiveCompletes
              /\ ~PushLate(tp)
              /\ receive_bytes({i})
              /\ push_tagpacket(tp, SourceHost(i))
    /\ push_budget' = push_budget - 1
    /\ UNCHANGED << sender_vars, mode, enabled, active, last_connect_at,
                    collector, decoded, iter_budget >>

\* poll() times out: no receiver has a socket
PollIdle ==
    /\ rc_command' = "none"
    /\ UNCHANGED << zmq_vars, lock_vars >>
    /\ Delivering = {}
    /\ main_pc = "poll"
    /\ main_pc' = "decide"
    /\ num_poll_timeout' = (num_poll_timeout + POLL_TIMEOUT_FRAMES)
                              % (CounterWrap * POLL_TIMEOUT_FRAMES)
    /\ reconnect_at' = [i \in Sources |->
                           IF enabled[i]
                           THEN Elapsed(reconnect_at[i], POLL_TIMEOUT_MS)
                           ELSE reconnect_at[i]]
    /\ most_recent_rx_time' = [i \in Sources |->
                                  ElapsedAge(most_recent_rx_time[i],
                                             POLL_TIMEOUT_MS)]
    /\ UNCHANGED << sender_vars, push_vars, system_now, steady_now,
                    push_budget, mode, enabled, active, connected,
                    num_connects, sock_valid, edi_decoder, last_connect_at,
                    closed_at, collector, decoded, iter_budget >>

\* switching mode, the output not running ok after late frames of source 1
InitRecover ==
    /\ InitSwitch
    /\ mode = "switching"
    /\ late_score = LATE_SCORE_THRESHOLD

NextRecover ==
    \/ DecideAgain
    \/ TickDelivering
    \/ PollBytes
    \/ PollCompleteFrame
    \/ PollIdle

\* the supervisor's loop keeps running, and a receiver that reads again and
\* again on a connection completes an AF packet
FairRecover == WF_vars(NextRecover) /\ SF_vars(PollCompleteFrame)

SpecRecover == InitRecover /\ [][NextRecover]_vars /\ FairRecover

-----------------------------------------------------------------------------
(* The decoder and the Receiver's callbacks *)

\* what a callback leaves: the collector, and whether it threw
Returned(c) == [c |-> c, thrown |-> FALSE]

Thrown(c) == [c |-> c, thrown |-> TRUE]

\* Receiver::update_protocol; good: the *ptr names DETI, version 0.0
update_protocol(c, good) ==
    LET c1 == [c EXCEPT !.m_proto_valid = good]
    IN  IF good THEN Returned(c1) ELSE Thrown(c1)

\* an update_fc_data that does not mark the frame characterisation valid
update_fc_data_NeverValid(c, fc) ==
    IF ~c.m_proto_valid THEN Thrown(c)
    ELSE LET c1 == [c EXCEPT !.m_fc_valid = FALSE, !.m_fc_dlfc = fc.dlfc]
         IN  IF ~fc.ficf THEN Thrown(c1) ELSE Returned(c1)

\* Receiver::update_fc_data for a frame characterisation whose MID and FP
\* are in range
update_fc_data(c, fc) ==
    IF ~c.m_proto_valid THEN Thrown(c)
    ELSE LET c1 == [c EXCEPT !.m_fc_valid = FALSE, !.m_fc_dlfc = fc.dlfc]
         IN  IF ~fc.ficf THEN Thrown(c1)
             ELSE Returned([c1 EXCEPT !.m_fc_valid = TRUE])

\* Receiver::update_fic with a FIC of the length the mode requires
update_fic(c) ==
    IF ~c.m_proto_valid THEN Thrown(c)
    ELSE Returned([c EXCEPT !.m_fic = TRUE])

\* the subchannels a Receiver accepts for one frame
MAX_SUBCHANNELS == 64

\* Receiver::add_subchannel called for n est TAG items in a row: each call
\* stores its subchannel and then checks the length of the list, and the
\* first call that throws ends the packet
add_subchannel(c, n) ==
    IF ~c.m_proto_valid THEN Thrown(c)
    ELSE IF c.m_subchannels + n > MAX_SUBCHANNELS
         THEN Thrown([c EXCEPT !.m_subchannels =
                                   IF @ >= MAX_SUBCHANNELS THEN @ + 1
                                   ELSE MAX_SUBCHANNELS + 1])
         ELSE Returned([c EXCEPT !.m_subchannels = @ + n])

\* an assemble that hands over the packet without its checks
assemble_Unchecked(c) ==
    Returned([c EXCEPT !.m_proto_valid = FALSE, !.m_fc_valid = FALSE,
                       !.m_fic = FALSE, !.m_subchannels = 0])

\* Receiver::assemble: its checks, and the reset before the callback
assemble(c) ==
    IF ~c.m_proto_valid \/ ~c.m_fc_valid \/ ~c.m_fic THEN Thrown(c)
    ELSE Returned([c EXCEPT !.m_proto_valid = FALSE, !.m_fc_valid = FALSE,
                            !.m_fic = FALSE, !.m_subchannels = 0])

\* the TAG items of the model: *ptr with a supported or an unsupported
\* protocol, deti with or without FIC, and est, which stands for the run of
\* n est TAG items, one subchannel each, of a frame with the most
\* subchannels a frame may have
PtrTags == [name : {"*ptr"}, good : BOOLEAN]

DetiTags == [name : {"deti"}, ficf : BOOLEAN, dlfc : Dlfcs]

EstTags == [name : {"est"}, n : {MAX_SUBCHANNELS}]

Tags == PtrTags \cup DetiTags \cup EstTags

\* the payloads of the model: up to MaxTags TAG items in any order, each
\* TAG name at most once
Payloads ==
    {p \in UNION {[1..n -> Tags] : n \in 0..MaxTags} :
        \A j, k \in 1..Len(p) : p[j].name = p[k].name => j = k}

\* the decoder's handler of one TAG item
dispatch(c, tag) ==
    IF tag.name = "*ptr" THEN update_protocol(c, tag.good)
    ELSE IF tag.name = "est" THEN add_subchannel(c, tag.n)
    ELSE LET r == update_fc_data(c, [ficf |-> tag.ficf, dlfc |-> tag.dlfc])
         IN  IF r.thrown THEN r ELSE update_fic(r.c)

\* the TAG dispatcher over a payload: it stops at the first fault
RECURSIVE dispatch_all(_, _)
dispatch_all(c, tags) ==
    IF tags = << >> THEN Returned(c)
    ELSE LET r == dispatch(c, Head(tags))
         IN  IF r.thrown THEN r ELSE dispatch_all(r.c, Tail(tags))

\* the decoder on a complete AF packet: the handlers, then assemble unless
\* a handler found a fault; a fault discards the packet. called: assemble
\* was called; pushed: it reached the on_tagpacket callback
decode_afpacket(c, tags) ==
    LET r == dispatch_all(c, tags)
        a == assemble(r.c)
    IN  IF r.thrown THEN [c |-> r.c, called |-> FALSE, pushed |-> FALSE]
        ELSE [c |-> a.c, called |-> TRUE, pushed |-> ~a.thrown]

\* the tagpacket assemble builds for receiver i from collector c and the
\* timestamp ts the decoder read
assemble_tagpacket(i, c, ts) == NewTagpacket(SourceHost(i), c.m_fc_dlfc, ts)

\* poll() reports one receiver readable, whose bytes complete an AF packet:
\* the decoder dispatches its TAG items and calls assemble
PollReceivePacket ==
    /\ rc_command' = "none"
    /\ UNCHANGED << zmq_vars, lock_vars >>
    /\ UNCHANGED num_poll_timeout
    /\ PollReturns(0)
    /\ \E i \in Sources, tags \in Payloads, ts \in Timestamps :
          LET d == decode_afpacket(collector[i], tags)
              tp == assemble_tagpacket(i, d.c, ts)
          IN  /\ sock_valid[i]
              /\ receive({i}, {i}, steady_now)
              /\ collector' = [collector EXCEPT ![i] = d.c]
              /\ IF d.pushed
                 THEN /\ push_tagpacket(tp, SourceHost(i))
                      /\ sent' = [sent EXCEPT ![SourceHost(i)] = @ + 1]
                 ELSE UNCHANGED << push_vars, sent >>
              /\ decoded' = [source |-> i, tags |-> tags, timestamp |-> ts,
                             callbacks |-> IF d.pushed THEN 1 ELSE 0,
                             tp |-> IF d.pushed THEN tp ELSE EmptyTagpacket,
                             faults |-> IF d.pushed THEN decoded.faults
                                        ELSE decoded.faults + 1]
    /\ UNCHANGED << settings, edi_enabled, running, most_recent_timestamp,
                    output_inhibit_until, show_backoff_ended_message,
                    num_dlfc_discontinuities, num_frames, pc, tagpacket,
                    prev_dlfc_valid, prev_dlfc, wake_at, pop_budget,
                    num_popped, push_budget, mode, enabled, active,
                    last_connect_at, iter_budget >>

\* one source in merging mode, from the entry of Main::start on
InitDecode ==
    /\ InitSwitch
    /\ mode = "merging"
    /\ main_pc = "start"
    /\ enabled = [i \in Sources |-> i = 1]

NextDecode ==
    \/ StartLoop
    \/ Decide
    \/ TickReceivers
    \/ PollTimeout
    \/ PollReceivePacket

SpecDecode == InitDecode /\ [][NextDecode]_vars

-----------------------------------------------------------------------------
(* ETI2ZMQ::encode_zmq_frame: the ZMQ output of reconstructed ETI frames *)

\* the frame phases of a frame characterisation: fp has three bits
Fps == 0..7

\* an encoder that raises an error on every deviating frame
encode_zmq_frame_ThrowOnDeviation(expected, fp) ==
    IF fp % 4 = expected
    THEN [expected |-> (expected + 1) % 4, written |-> TRUE,
          thrown |-> FALSE]
    ELSE [expected |-> expected, written |-> FALSE, thrown |-> TRUE]

\* encode_zmq_frame on a frame of phase fp: the expected phase afterwards,
\* whether the frame was written to the ZMQ sink, whether an error was thrown
encode_zmq_frame(expected, fp) ==
    IF fp % 4 = expected
    THEN [expected |-> (expected + 1) % 4, written |-> TRUE,
          thrown |-> FALSE]
    ELSE IF expected # 0
         THEN [expected |-> expected, written |-> FALSE, thrown |-> TRUE]
         ELSE [expected |-> expected, written |-> FALSE, thrown |-> FALSE]

\* the ETI callback hands a reconstructed frame to the encoder
EncodeZmqFrame ==
    /\ zmq_out.calls < MaxZmqFrames
    /\ \E fp \in Fps :
          LET r == encode_zmq_frame(m_expected_next_fp, fp)
          IN  /\ m_expected_next_fp' = r.expected
              /\ zmq_out' = [fp |-> fp, written |-> r.written,
                             thrown |-> r.thrown,
                             calls |-> zmq_out.calls + 1]
    /\ UNCHANGED << sender_vars, push_vars, system_now, steady_now,
                    push_budget, mode, enabled, active, connected,
                    num_connects, sock_valid, edi_decoder,
                    most_recent_rx_time, reconnect_at, last_connect_at,
                    closed_at, collector, decoded, main_pc, iter_budget,
                    num_poll_timeout, rc_command, eti_frame, lock_vars >>

\* an ETI2ZMQ after construction, beside an EDISender at rest
InitZmq ==
    /\ Init
    /\ settings.delay_ms = NoDelay
    /\ settings.drop_late

NextZmq == EncodeZmqFrame

SpecZmq == InitZmq /\ [][NextZmq]_vars

-----------------------------------------------------------------------------
(* The RC command "reset counters" on a running bridge *)

\* a bridge that has been running: the transmitter, now at rest, has sent a
\* frame of second 1, met a discontinuity whose backoff has ended, and the
\* queue has overrun once; the next frame is pending
InitCounted ==
    /\ settings \in [delay_ms : DelayValues, drop_late : {TRUE},
                     backoff : BackoffValues]
    /\ edi_enabled = TRUE
    /\ running = TRUE
    /\ output_inhibit_until = MainStart - 1
    /\ show_backoff_ended_message = FALSE
    /\ num_dropped = 2
    /\ num_queue_overruns = 1
    /\ num_dlfc_discontinuities = 1
    /\ num_frames = 1
    /\ most_recent_timestamp = PendingFrames(1)[1].timestamp
    /\ pending_tagpackets = Tail(PendingFrames(2))
    /\ prev_dlfc_valid = TRUE
    /\ prev_dlfc = 0
    /\ num_popped = 1
    /\ pc = "loop"
    /\ tagpacket = EmptyTagpacket
    /\ wake_at = 0
    /\ system_now = SystemStart
    /\ sent = [h \in Hosts |-> 0]

InitReset ==
    /\ InitCounted
    /\ steady_now = MainStart
    /\ push_budget = 1
    /\ pop_budget = 0
    /\ iter_budget = MaxIterations
    /\ num_poll_timeout \in {0, POLL_TIMEOUT_FRAMES}
    /\ rc_command = "none"
    /\ m_expected_next_fp = 0
    /\ zmq_out = NoZmq
    /\ eti_frame = NoEti
    /\ mutex = "free"
    /\ sup_at = Idle
    /\ tx_at = [op |-> "process", k |-> 1]
    /\ mode \in {"switching", "merging"}
    /\ InitRunning(0) \/ InitRunning(LateFrames)

\* the supervisor's loop
NextReset ==
    \/ Decide
    \/ TickReceivers
    \/ PollTimeout
    \/ PollReceive
    \/ PollReceiveFrame
    \/ PollRcInput
    \/ PollRcReset

SpecReset == InitReset /\ [][NextReset]_vars

-----------------------------------------------------------------------------
(* Receiver::assemble: the FSYNC of a reconstructed ETI frame *)

\* the frame count of a frame characterisation
fct(dlfc) == dlfc % 250

\* an FSYNC that starts with F8 C5 49 on the even frame counts
FSYNC_EvenFirst(f) ==
    IF f % 2 = 0 THEN << 248, 197, 73 >> ELSE << 7, 58, 182 >>

\* the three FSYNC bytes for frame count f: F8 C5 49 or 07 3A B6
FSYNC(f) ==
    IF f % 2 = 1 THEN << 248, 197, 73 >> ELSE << 7, 58, 182 >>

\* assemble() reconstructs the first ETI frame, of any frame
\* characterisation
ReconstructEti ==
    /\ eti_frame = NoEti
    /\ \E dlfc \in 0..(DLFC_MODULUS - 1) :
          eti_frame' = [dlfc |-> dlfc, fsync |-> FSYNC(fct(dlfc))]
    /\ UNCHANGED << sender_vars, push_vars, system_now, steady_now,
                    push_budget, mode, enabled, active, connected,
                    num_connects, sock_valid, edi_decoder,
                    most_recent_rx_time, reconnect_at, last_connect_at,
                    closed_at, collector, decoded, main_pc, iter_budget,
                    num_poll_timeout, rc_command, m_expected_next_fp,
                    zmq_out, lock_vars >>

NextFsync == ReconstructEti

SpecFsync == InitZmq /\ [][NextFsync]_vars

-----------------------------------------------------------------------------
(* EDISender::_mutex: the accesses of the two threads to the shared fields *)

\* the steps of a call that matter here
Lock == [act |-> "lock", field |-> "_mutex"]

Unlock == [act |-> "unlock", field |-> "_mutex"]

Read(f) == [act |-> "read", field |-> f]

Write(f) == [act |-> "write", field |-> f]

\* the calls the supervisor thread makes, each as the steps of the path
\* that inserts, reads or resets
SupervisorCalls ==
    [push_tagpacket |->
        << Lock, Read("_pending_tagpackets"), Read("_most_recent_timestamp"),
           Read("_output_inhibit_until"), Write("_pending_tagpackets"),
           Write("late_score"), Unlock >>,
     is_running_ok |-> << Read("late_score") >>,
     backoff_milliseconds_remaining |->
        << Read("_output_inhibit_until"), Read("_output_inhibit_until") >>,
     get_late_score |-> << Lock, Read("late_score"), Unlock >>,
     reset_counters |-> << Lock, Write("late_score"), Unlock >>]

\* the calls of the transmitter thread: the pop of process(), inhibit() and
\* send_tagpacket
TransmitterCalls ==
    [process |->
        << Lock, Read("_pending_tagpackets"), Write("_most_recent_timestamp"),
           Write("_pending_tagpackets"), Unlock >>,
     inhibit |->
        << Write("_output_inhibit_until"), Lock, Write("_pending_tagpackets"),
           Write("late_score"), Unlock >>,
     send_tagpacket |-> << Read("_output_inhibit_until") >>]

\* what the transmitter thread does after a call: process() pops, calls
\* inhibit() on a discontinuity, then send_tagpacket, and pops again
TransmitterNext(op) ==
    IF op = "process" THEN {"inhibit", "send_tagpacket"}
    ELSE IF op = "inhibit" THEN {"send_tagpacket"}
    ELSE {"process"}

\* the step a thread at position at of calls is about to take
StepAt(calls, at) == calls[at.op][at.k]

\* the mutex after thread t took step st
mutex_after(t, st) ==
    IF st.act = "lock" THEN t
    ELSE IF st.act = "unlock" THEN "free"
    ELSE mutex

\* everything but the mutex and the positions of the threads
bridge_vars ==
    << sender_vars, push_vars, system_now, steady_now, push_budget, mode,
       enabled, active, connected, num_connects, sock_valid, edi_decoder,
       most_recent_rx_time, reconnect_at, last_connect_at, closed_at,
       collector, decoded, main_pc, iter_budget, num_poll_timeout,
       rc_command, zmq_vars >>

\* the supervisor thread enters a call
SupervisorEnters ==
    /\ sup_at = Idle
    /\ \E op \in DOMAIN SupervisorCalls : sup_at' = [op |-> op, k |-> 1]
    /\ UNCHANGED << mutex, tx_at, bridge_vars >>

\* the supervisor thread takes the next step of its call
SupervisorSteps ==
    /\ sup_at # Idle
    /\ LET st == StepAt(SupervisorCalls, sup_at)
       IN  /\ st.act = "lock" => mutex = "free"
           /\ mutex' = mutex_after("supervisor", st)
    /\ sup_at' = IF sup_at.k = Len(SupervisorCalls[sup_at.op]) THEN Idle
                 ELSE [sup_at EXCEPT !.k = @ + 1]
    /\ UNCHANGED << tx_at, bridge_vars >>

\* the transmitter thread takes the next step of its call, and enters the
\* following call after the last one
TransmitterSteps ==
    /\ LET st == StepAt(TransmitterCalls, tx_at)
       IN  /\ st.act = "lock" => mutex = "free"
           /\ mutex' = mutex_after("transmitter", st)
    /\ IF tx_at.k = Len(TransmitterCalls[tx_at.op])
       THEN \E op \in TransmitterNext(tx_at.op) :
               tx_at' = [op |-> op, k |-> 1]
       ELSE tx_at' = [tx_at EXCEPT !.k = @ + 1]
    /\ UNCHANGED << sup_at, bridge_vars >>

\* a started EDISender, its queue empty
InitLock == InitZmq

NextLock ==
    \/ SupervisorEnters
    \/ SupervisorSteps
    \/ TransmitterSteps

SpecLock == InitLock /\ [][NextLock]_vars

-----------------------------------------------------------------------------
(* Properties of the merge queue *)

\* the packets of a list
Packets(q) == {q[i] : i \in 1..Len(q)}

\* every tagpacket the supervisor can push, with its receiver
PushInputs ==
    {<< NewTagpacket(r, dlfc, ts), r >> :
        r \in Hosts, dlfc \in Dlfcs, ts \in Timestamps}

\* this step is the call push_tagpacket(tp, r)
PushStep(tp, r) ==
    /\ push_budget' = push_budget - 1
    /\ push_tagpacket(tp, r)

\* this step pops a packet from the queue
PopStep == pc = "loop" /\ pc' = "check"

\* tp is pushed at a moment after its release time, or carries no seconds
ReleasePassed(tp) ==
    /\ has_value(settings.delay_ms)
    /\ \/ tp.timestamp.seconds = 0
       \/ to_system_clock(tp.timestamp) + value_of(settings.delay_ms)
             < system_now

\* C1: the timestamp of each popped packet is strictly greater than the
\* timestamp of the packet popped before it, for any delay setting and any
\* timestamp values.
C1_PoppedTimestampsIncrease ==
    [][(PopStep /\ num_popped > 0)
          => ts_lt(most_recent_timestamp, most_recent_timestamp')]_vars

\* C2: in every reachable state the pending queue is strictly increasing in
\* timestamp from front to back.
C2_QueueStrictlyIncreasing ==
    \A i \in 1..(Len(pending_tagpackets) - 1) :
        ts_lt(pending_tagpackets[i].timestamp,
              pending_tagpackets[i + 1].timestamp)

\* C2 witness: three packets are pending, pushed in any order
C2_Witness == Len(pending_tagpackets) = 3

\* C3: whenever the queue mutex is not held, the pending queue holds at most
\* MAX_PENDING_TAGPACKETS packets.
C3_QueueBounded == Len(pending_tagpackets) <= MAX_PENDING_TAGPACKETS

\* C3 witness: the queue is at its limit after an overrun
C3_Witness ==
    /\ Len(pending_tagpackets) = MAX_PENDING_TAGPACKETS
    /\ num_queue_overruns > 0

\* C4: when a push makes the queue longer than MAX_PENDING_TAGPACKETS, one
\* packet is removed, the one with the smallest timestamp, and
\* num_queue_overruns increases by one; a push that does not overflow leaves
\* num_queue_overruns unchanged.
C4_OverrunDropsOldest ==
    [][\A in \in PushInputs :
          LET tp == in[1]
              q == pending_tagpackets
              placed == /\ ~PushLate(tp)
                        /\ ~PushDupLate(tp)
                        /\ ~PushInhibited
                        /\ \A i \in 1..Len(q) :
                              ~ts_eq(q[i].timestamp, tp.timestamp)
              oldest == IF Len(q) > 0 /\ ts_lt(q[1].timestamp, tp.timestamp)
                        THEN q[1] ELSE tp
          IN PushStep(tp, in[2]) =>
                IF placed /\ Len(q) = MAX_PENDING_TAGPACKETS
                THEN /\ num_queue_overruns' = num_queue_overruns + 1
                     /\ Len(pending_tagpackets') = MAX_PENDING_TAGPACKETS
                     /\ Packets(pending_tagpackets')
                           = (Packets(q) \cup {tp}) \ {oldest}
                     /\ \A x \in Packets(q) \cup {tp} :
                           x = oldest \/ ts_lt(oldest.timestamp, x.timestamp)
                ELSE num_queue_overruns' = num_queue_overruns]_vars

\* C4 witness: an overrun removed the front packet and kept the pushed one
C4_Witness ==
    /\ num_queue_overruns = 1
    /\ Len(pending_tagpackets) = MAX_PENDING_TAGPACKETS
    /\ pending_tagpackets[1] = PendingFrames(2)[2]
    /\ pending_tagpackets[MAX_PENDING_TAGPACKETS].hostnames = << "B" >>

\* C5: pushing a packet whose timestamp and dlfc equal those of a pending
\* packet leaves the number of pending packets unchanged; the single pending
\* element of that timestamp holds the first copy's payload.
C5_DuplicatePushIdempotent ==
    [][\A in \in PushInputs :
          LET tp == in[1]
              q == pending_tagpackets
          IN (/\ PushStep(tp, in[2])
              /\ \E i \in 1..Len(q) :
                    /\ ts_eq(q[i].timestamp, tp.timestamp)
                    /\ q[i].dlfc = tp.dlfc)
             => /\ Len(pending_tagpackets') = Len(q)
                /\ \A j \in 1..Len(q) :
                      /\ pending_tagpackets'[j].afpacket = q[j].afpacket
                      /\ pending_tagpackets'[j].dlfc = q[j].dlfc
                      /\ pending_tagpackets'[j].timestamp = q[j].timestamp
                /\ Cardinality({j \in 1..Len(pending_tagpackets') :
                      ts_eq(pending_tagpackets'[j].timestamp, tp.timestamp)})
                      = 1]_vars

\* C5 witness: the copy of "B" was merged into the pending copy of "A"
C5_Witness ==
    \E i \in 1..Len(pending_tagpackets) :
        /\ pending_tagpackets[i].hostnames = << "A", "B" >>
        /\ pending_tagpackets[i].afpacket = << "A" >>

\* the number of the frame with timestamp ts
FrameNumber(ts) ==
    CHOOSE k \in 1..NumFrames : ts_eq(MergeFrame(k, "A").timestamp, ts)

\* the hostnames a hostnames field lists
Listed(hostnames) == {hostnames[i] : i \in 1..Len(hostnames)}

\* both sources have delivered every frame and the transmitter has drained
\* the queue
MergeDone ==
    /\ \A h \in Hosts : sent[h] = NumFrames
    /\ pending_tagpackets = << >>
    /\ pc = "loop"

\* no frame is popped twice, and without a delay every frame is popped
PoppedOnce ==
    /\ (PopStep /\ num_popped > 0)
          => ts_lt(most_recent_timestamp, most_recent_timestamp')
    /\ (MergeDone' /\ ~has_value(settings.delay_ms))
          => num_popped' = NumFrames

\* C6 as stated: in merging mode, when two sources push the same frames,
\* every frame is popped exactly once and the hostnames of every popped
\* frame contain both hostnames, for every interleaving of pushes and pops.
C6_PoppedFramesCarryBothHostnames ==
    [][/\ PoppedOnce
       /\ PopStep => Listed(tagpacket'.hostnames) = Hosts]_vars

\* C6 as amended: every frame is popped at most once (exactly once without
\* a delay), and the hostnames of a popped frame list, each once, sources
\* that pushed the frame before it was popped: without a delay, exactly
\* those sources. A frame popped between the two pushes carries one hostname.
C6_PoppedFramesCarryEarlierPushers ==
    [][/\ PoppedOnce
       /\ PopStep =>
             LET hostnames == tagpacket'.hostnames
                 k == FrameNumber(tagpacket'.timestamp)
             IN /\ Len(hostnames) > 0
                /\ Cardinality(Listed(hostnames)) = Len(hostnames)
                /\ \A h \in Listed(hostnames) : sent[h] >= k
                /\ ~has_value(settings.delay_ms)
                      => \A h \in Hosts :
                            sent[h] >= k => h \in Listed(hostnames)]_vars

\* C6 witness: the second frame is popped with the hostnames of both
\* sources, after the first frame was popped with one
C6_Witness ==
    /\ pc = "check"
    /\ num_popped = 2
    /\ tagpacket.hostnames = << "A", "B" >>
    /\ sent["A"] = sent["B"]

\* C7: with delay_ms set, a push made after the packet's release time, or
\* of a packet whose timestamp has seconds = 0, leaves the pending queue as
\* it was.
C7_LatePushNotEnqueued ==
    [][\A in \in PushInputs :
          (PushStep(in[1], in[2]) /\ ReleasePassed(in[1]))
             => pending_tagpackets' = pending_tagpackets]_vars

\* C7 witness: a late push was scored while a packet was pending
C7_Witness ==
    /\ late_score >= LATE_SCORE_INCREASE
    /\ Len(pending_tagpackets) > 0

\* C8: with delay_ms = 500 and drop_late, pushing a frame whose release time
\* is in the past increases num_dropped by 1 and late_score by 10, and
\* enqueues nothing.
C8_LatePushCountedDropped ==
    [][\A in \in PushInputs :
          (/\ PushStep(in[1], in[2])
           /\ settings.delay_ms = << 500 >>
           /\ settings.drop_late
           /\ to_system_clock(in[1].timestamp) + 500 < system_now)
             => /\ num_dropped' = num_dropped + 1
                /\ late_score' = late_score + 10
                /\ pending_tagpackets' = pending_tagpackets]_vars

\* clamp(x, lo, hi)
Clamp(x, lo, hi) == IF x < lo THEN lo ELSE IF x > hi THEN hi ELSE x

\* C9: for every push, the new late_score is clamp(old + 10 if the packet
\* is late (release < now), old - 1 if it is neither late nor dropped, old
\* otherwise; 0, 200), whatever the combination of late, already emitted,
\* inhibited and duplicate.
C9_LateScoreLaw ==
    [][\A in \in PushInputs :
          LET tp == in[1]
              late == /\ has_value(settings.delay_ms)
                      /\ to_system_clock(tp.timestamp)
                            + value_of(settings.delay_ms) < system_now
              dropped == \/ /\ is_valid(most_recent_timestamp)
                            /\ ts_ge(most_recent_timestamp, tp.timestamp)
                         \/ steady_now < output_inhibit_until
          IN PushStep(tp, in[2]) =>
                late_score' =
                    Clamp(IF late THEN late_score + 10
                          ELSE IF ~dropped THEN late_score - 1
                          ELSE late_score, 0, 200)]_vars

\* C10: in every reachable state 0 <= late_score <= 200.
C10_LateScoreInRange == 0 <= late_score /\ late_score <= LATE_SCORE_MAX

\* C10 witness: a late push raised the score to its maximum
C10_Witness ==
    /\ late_score = LATE_SCORE_MAX
    /\ \E h \in Hosts : num_late[h] > 0
    /\ num_dropped = 0
    /\ num_popped = 0

-----------------------------------------------------------------------------
(* Properties of the transmitter *)

\* this step is the DLFC continuity check of a popped packet
CheckStep == pc = "check" /\ pc' \in {"inhibit", "send"}

\* the popped packet's DLFC does not follow that of the packet popped before
DlfcMismatch == tagpacket.dlfc # (prev_dlfc + 1) % DLFC_MODULUS

\* inhibit() is called only on a discontinuity, and once for it
InhibitOncePerDiscontinuity ==
    /\ (pc' = "inhibit" /\ pc # "inhibit") => pc = "check"
    /\ (pc = "inhibit" /\ pc' # "inhibit")
          => /\ pc' = "send"
             /\ output_inhibit_until' = steady_now + settings.backoff
             /\ pending_tagpackets' = << >>
    /\ (output_inhibit_until' # output_inhibit_until) => pc = "inhibit"

\* C11 as stated: for every pair of consecutively popped packets, a DLFC
\* that does not follow the previous one (mod 5000) increases
\* num_dlfc_discontinuities by one and calls inhibit() once, and a DLFC that
\* follows does neither; also for two violations in a row.
C11_EveryMismatchInhibits ==
    [][/\ (CheckStep /\ num_popped > 1) =>
             IF DlfcMismatch
             THEN /\ num_dlfc_discontinuities' = num_dlfc_discontinuities + 1
                  /\ pc' = "inhibit"
             ELSE /\ num_dlfc_discontinuities' = num_dlfc_discontinuities
                  /\ pc' = "send"
       /\ InhibitOncePerDiscontinuity]_vars

\* C11 as amended: a popped packet is checked against the packet popped
\* before it unless that one was itself a discontinuity (or there is none).
\* A checked packet whose DLFC does not follow (mod 5000) increases
\* num_dlfc_discontinuities by one and calls inhibit() once; a packet that
\* follows, or that is not checked, does neither.
C11_CheckedMismatchInhibits ==
    [][/\ CheckStep =>
             IF prev_dlfc_valid /\ DlfcMismatch
             THEN /\ num_dlfc_discontinuities' = num_dlfc_discontinuities + 1
                  /\ pc' = "inhibit"
             ELSE /\ num_dlfc_discontinuities' = num_dlfc_discontinuities
                  /\ pc' = "send"
                  /\ prev_dlfc_valid'
       /\ num_dlfc_discontinuities' # num_dlfc_discontinuities => CheckStep
       /\ (pc = "inhibit" /\ pc' # "inhibit") => ~prev_dlfc_valid'
       /\ InhibitOncePerDiscontinuity]_vars

\* C11 witness: DLFC 0 was popped after DLFC 4999 and passed the check
C11_Witness ==
    /\ pc = "send"
    /\ num_popped = 2
    /\ prev_dlfc_valid
    /\ prev_dlfc = 0
    /\ tagpacket.dlfc = 0
    /\ num_dlfc_discontinuities = 0

\* this step is the call of inhibit() by process()
InhibitStep == pc = "inhibit" /\ pc' = "send"

\* C12: immediately after inhibit() returns, inhibit_until is the monotonic
\* time of the call plus the configured backoff, the pending queue is empty
\* and late_score is 0.
C12_InhibitEffect ==
    [][InhibitStep =>
          /\ output_inhibit_until' = steady_now + settings.backoff
          /\ pending_tagpackets' = << >>
          /\ late_score' = 0]_vars

\* C12 witness: inhibit() was called after the clock had advanced; the
\* window it opened is still running
C12_Witness ==
    /\ pc = "send"
    /\ ~prev_dlfc_valid
    /\ num_dlfc_discontinuities = 1
    /\ steady_now > 0
    /\ output_inhibit_until = steady_now + settings.backoff
    /\ pending_tagpackets = << >>
    /\ late_score = 0

\* the monotonic clock is before inhibit_until
InWindow == steady_now < output_inhibit_until

\* this step ends send_tagpacket for the popped packet
SendDone == pc \in {"send", "sleep"} /\ pc' = "loop"

\* C13: while the monotonic clock is before inhibit_until no frame is handed
\* to the output (num_frames does not grow), and every frame that arrives at
\* push or at the transmitter in that window is dropped, with num_dropped
\* increased by one for it.
C13_InhibitWindowDrops ==
    [][/\ InWindow => num_frames' <= num_frames
       /\ (InWindow /\ SendDone) => num_dropped' = num_dropped + 1
       /\ \A in \in PushInputs :
             (InWindow /\ PushStep(in[1], in[2]))
                => /\ pending_tagpackets' = pending_tagpackets
                   /\ num_dropped' = num_dropped + 1]_vars

\* this step hands the popped packet to the output
OutputStep == SendDone /\ num_frames' = num_frames + 1

\* C14: with delay_ms set, no frame is handed to the output before the
\* wall-clock time timestamp + delay_ms of that frame.
C14_NotBeforeRelease ==
    [][(OutputStep /\ has_value(settings.delay_ms))
          => system_now >= to_system_clock(tagpacket.timestamp)
                              + value_of(settings.delay_ms)]_vars

\* C14 witness: a frame popped before its release time went out at it
C14_Witness ==
    /\ pc = "loop"
    /\ num_frames = 1
    /\ num_popped = 1
    /\ has_value(settings.delay_ms)
    /\ steady_now > 0
    /\ wake_at = steady_now
    /\ system_now = to_system_clock(most_recent_timestamp)
                       + value_of(settings.delay_ms)

-----------------------------------------------------------------------------
(* Properties of the supervisor *)

\* the supervisor is past the decision of this iteration: tick() of the
\* receivers comes next
AfterDecision == main_pc = "tick"

\* C16: in switching mode, when tick() is called on the receivers after the
\* decision of an iteration, if at least one source is enabled then exactly
\* one source is active and that source is enabled, whatever RC enable and
\* disable commands came before.
C16_OneActiveWhenEnabled ==
    (mode = "switching" /\ AfterDecision /\ EnabledSources # {})
       => /\ Cardinality(ActiveSources(active)) = 1
          /\ ActiveSources(active) \subseteq EnabledSources

\* C17: in switching mode at most one source is active in every reachable
\* state, whatever switches, ensure_one_active() calls and RC enable and
\* disable commands have happened.
C17_AtMostOneActive ==
    mode = "switching" => Cardinality(ActiveSources(active)) <= 1

\* C17 witness: after RC commands and a switch the last source of the list
\* is the active one, and the first source is disabled
C17_Witness ==
    /\ mode = "switching"
    /\ iter_budget = 0
    /\ main_pc = "decide"
    /\ ActiveSources(active) = {NumSources}
    /\ ~enabled[1]
    /\ enabled[2]

\* the decision of an iteration is taken in this step
DecideStep == main_pc = "decide" /\ main_pc' = "tick"

\* the sources passed over when rotating from rx to n
Between(rx, n) ==
    IF n > rx THEN (rx + 1)..(n - 1)
    ELSE ((rx + 1)..NumSources) \cup (1..(n - 1))

\* source rx is the active one and the supervisor has a reason to leave it
MustSwitch(rx) ==
    /\ mode = "switching"
    /\ ActiveSources(active) = {rx}
    /\ \/ ~enabled[rx]
       \/ steady_now - most_recent_rx_time[rx] > switch_delay
       \/ ~is_running_ok
    /\ EnabledSources \ {rx} # {}

\* C18: in switching mode, when the active source is disabled, or has
\* received nothing for more than switch_delay, or the output is not running
\* ok, and another enabled source exists, the decision makes the active
\* source inactive and activates the next enabled source after it in list
\* order, wrapping around; no step makes a source active that is not
\* enabled.
C18_SwitchToNextEnabled ==
    [][/\ \A rx \in Sources :
             (DecideStep /\ MustSwitch(rx))
                => \E n \in EnabledSources \ {rx} :
                      /\ ActiveSources(active') = {n}
                      /\ Between(rx, n) \cap EnabledSources = {}
       /\ mode = "switching"
             => \A i \in Sources :
                   (~active[i] /\ active'[i]) => enabled[i]]_vars

\* C18 witness: the decision has just switched from the last source of the
\* list, whose socket is still open, to the first one
C18_Witness ==
    /\ mode = "switching"
    /\ AfterDecision
    /\ sock_valid[NumSources]
    /\ ActiveSources(active) = {1}

\* the time since receiver i last read bytes
PacketAge(i) == steady_now - most_recent_rx_time[i]

\* source B (the second of the list) is the active one, the output runs ok,
\* and B's socket is open: its connection is being set up, or it has
\* delivered bytes within switch_delay
BConnectingOrDelivering ==
    /\ ActiveSources(active) = {2}
    /\ is_running_ok
    /\ sock_valid[2]
    /\ connected[2] => PacketAge(2) <= switch_delay

\* C19: switching on silence. With two enabled sources A (active) and B,
\* once A has delivered nothing for more than switch_delay the decision
\* activates B, and while B is connecting and then delivering the decision
\* does not switch again.
C19_SwitchOnceOnSilence ==
    [][(DecideStep /\ mode = "switching" /\ EnabledSources = {1, 2})
          => /\ (ActiveSources(active) = {1} /\ PacketAge(1) > switch_delay)
                => ActiveSources(active') = {2}
             /\ BConnectingOrDelivering => active' = active]_vars

\* tick() of the receivers runs in this step
TickStep == main_pc = "tick" /\ main_pc' = "poll"

\* C20: after tick() of a receiver whose source is not active the receiver
\* has no valid socket, source.connected is false and it holds no decoder;
\* so no source that is not active is among the descriptors given to
\* poll(), and a source made inactive by the decision of an iteration is
\* disconnected in that iteration.
C20_InactiveIsDisconnected ==
    /\ [][TickStep
             => \A i \in Sources :
                   ~active[i] => /\ ~sock_valid'[i]
                                 /\ ~connected'[i]
                                 /\ ~edi_decoder'[i]]_vars
    /\ [](main_pc = "poll" => Readable \subseteq SUBSET ActiveSources(active))

\* C20 witness: source 1, connected once and never failed, was switched
\* away from and tick() has closed its connection
C20_Witness ==
    /\ main_pc = "poll"
    /\ ~active[1]
    /\ num_connects[1] = 1
    /\ reconnect_at[1] = ConstructedAt + RECONNECT_DELAY
    /\ ~sock_valid[1]
    /\ ~connected[1]
    /\ ~edi_decoder[1]

-----------------------------------------------------------------------------
(* Properties of the receivers *)

\* C21: consecutive connection attempts of the same receiver are at least
\* the reconnect delay of 480 ms apart, also when attempts fail and when the
\* source was inactive for a long time before it was made active.
C21_AttemptsApart ==
    [][\A i \in Sources :
          (TickStep /\ Connecting(i) /\ has_value(last_connect_at[i]))
             => steady_now - value_of(last_connect_at[i])
                   >= RECONNECT_DELAY]_vars

\* the socket of receiver i is closed in this step
SocketCloses(i) == sock_valid[i] /\ ~sock_valid'[i]

\* receiver i attempts a connection in this step
AttemptStep(i) == TickStep /\ Connecting(i)

\* C22: whenever a receiver's socket is closed, by receive() or by tick(),
\* the receiver holds no decoder after the step; and after a close in
\* receive() the receiver attempts no connection for 480 ms.
C22_CloseResetsDecoder ==
    [][\A i \in Sources :
          /\ SocketCloses(i) => ~edi_decoder'[i]
          /\ (AttemptStep(i) /\ has_value(closed_at[i]))
                => steady_now - value_of(closed_at[i]) >= RECONNECT_DELAY]_vars

\* C22 witness: receive() has just closed the socket of a source that had
\* connected, whose receiver held a decoder
C22_Witness ==
    \E i \in Sources :
       /\ main_pc = "decide"
       /\ closed_at[i] = << steady_now >>
       /\ num_connects[i] = 1
       /\ ~sock_valid[i]
       /\ ~edi_decoder[i]
       /\ reconnect_at[i] = steady_now + RECONNECT_DELAY

\* the effect of "reset counters" on the counters the model holds
CountersReset ==
    /\ num_connects' = [i \in Sources |-> 0]
    /\ num_late' = [h \in Hosts |-> 0]
    /\ late_score' = 0
    /\ num_frames' = 0
    /\ num_dropped' = 0
    /\ num_queue_overruns' = 0
    /\ num_dlfc_discontinuities' = 0

\* C23: source.num_connects increases by exactly one each time
\* source.connected changes from false to true, and changes at no other
\* time except that "reset counters" sets it to 0; a receive on a connected
\* source leaves it unchanged.
C23_NumConnectsCountsConnects ==
    [][\A i \in Sources :
          IF ~connected[i] /\ connected'[i]
          THEN num_connects'[i] = num_connects[i] + 1
          ELSE \/ num_connects'[i] = num_connects[i]
               \/ CountersReset]_vars

\* C23 witness: a source that connected in this run has read bytes twice,
\* the second time after a poll timeout, and counts one connect
C23_Witness ==
    \E i \in Sources :
       /\ connected[i]
       /\ num_connects[i] = 1
       /\ last_connect_at[i] = << MainStart >>
       /\ most_recent_rx_time[i] = MainStart + POLL_TIMEOUT_MS
       /\ iter_budget = 0

-----------------------------------------------------------------------------
(* Properties of the decoding *)

\* the bytes read in this step complete an AF packet
PacketStep ==
    main_pc = "poll" /\ main_pc' = "decide" /\ steady_now' = steady_now

\* a payload without fault: a *ptr of the supported protocol, then a deti
\* with FIC
WellFormed(tags) ==
    /\ Len(tags) = 2
    /\ tags[1].name = "*ptr" /\ tags[1].good
    /\ tags[2].name = "deti" /\ tags[2].ficf

AssembleCalled(i, tags) == decode_afpacket(collector[i], tags).called

\* the dlfc of the last deti of a payload, old if it has none
LastDlfc(old, tags) ==
    LET ds == {k \in 1..Len(tags) : tags[k].name = "deti"}
    IN  IF ds = {} THEN old
        ELSE tags[CHOOSE k \in ds : \A j \in ds : j <= k].dlfc

\* the collector assemble() finds after the handlers of the payload passes
\* its checks
ChecksPass(i, tags) ==
    LET c == dispatch_all(collector[i], tags).c
    IN  c.m_proto_valid /\ c.m_fc_valid /\ c.m_fic

-----------------------------------------------------------------------------
(* Properties of the wait-delay option and of the running flag *)

\* the wait is disabled
DelayUnset == ~has_value(settings.delay_ms)

\* this step is send_tagpacket from its entry
SendStep == pc = "send" /\ pc' # "send"

C27_SleeperExitsWithoutSending ==
    [][(~running /\ pc = "sleep") => num_frames' = num_frames]_vars

\* C28: after the running flag is cleared the transmitter thread eventually
\* leaves its loop, whatever the queue holds, whatever is pushed meanwhile
\* and whether or not the output is inhibited.
C28_StopTerminates == ~running ~> pc = "done"

\* C28 witness: the thread has left its loop after a discontinuity, with
\* packets still pending
C28_Witness ==
    /\ ~running
    /\ pc = "done"
    /\ Len(pending_tagpackets) > 0
    /\ num_dlfc_discontinuities > 0

-----------------------------------------------------------------------------
(* Properties of the ZMQ output and of the remote control *)

\* this step is a call of encode_zmq_frame
EncodeStep == zmq_out'.calls = zmq_out.calls + 1

\* the phase of the frame handed over is not the expected one
Deviates == zmq_out'.fp % 4 # m_expected_next_fp

\* C29 as stated: a reconstructed ETI frame is written to the ZMQ sink only
\* when its fp mod 4 equals the expected next value, and every frame whose
\* fp mod 4 deviates from it raises an error.
C29_EveryDeviationRaises ==
    [][EncodeStep
          => /\ zmq_out'.written => ~Deviates
             /\ Deviates => zmq_out'.thrown]_vars

\* C29 amended: the expected value starts at 0; a frame is written exactly
\* when its fp mod 4 equals the expected value, which then advances by 1
\* mod 4 and otherwise stays; a deviating frame raises an error when the
\* expected value is not 0 and is skipped without error when it is 0.
C29_DeviationRaisesInsideGroup ==
    [][/\ zmq_out.calls = 0 => m_expected_next_fp = 0
       /\ EncodeStep
             => /\ zmq_out'.written <=> ~Deviates
                /\ m_expected_next_fp'
                      = IF zmq_out'.written
                        THEN (m_expected_next_fp + 1) % 4
                        ELSE m_expected_next_fp
                /\ zmq_out'.thrown
                      <=> (Deviates /\ m_expected_next_fp # 0)]_vars

\* C29 witness: a frame was skipped, two were written, and the fourth, out
\* of phase inside the group, raised an error
C29_Witness ==
    /\ zmq_out.calls = 4
    /\ m_expected_next_fp = 2
    /\ zmq_out.thrown
    /\ zmq_out.fp % 4 = 0

\* this step handles the RC command "reset counters"
RcResetStep ==
    /\ main_pc = "poll"
    /\ main_pc' = "decide"
    /\ rc_command' = "reset counters"

\* C30: the RC command "reset counters" sets num_frames, num_dropped,
\* num_queue_overruns, num_dlfc_discontinuities, late_score, every
\* receiver's num_late, every source's num_connects and num_poll_timeout to
\* 0 and leaves the pending queue, the most recent emitted timestamp, the
\* end of the inhibit window and the sources' enabled, active and connected
\* flags unchanged.
C30_ResetCountersEffect ==
    [][RcResetStep
          => /\ num_frames' = 0
             /\ num_dropped' = 0
             /\ num_queue_overruns' = 0
             /\ num_dlfc_discontinuities' = 0
             /\ late_score' = 0
             /\ \A h \in Hosts : num_late'[h] = 0
             /\ \A i \in Sources : num_connects'[i] = 0
             /\ num_poll_timeout' = 0
             /\ UNCHANGED << pending_tagpackets, most_recent_timestamp,
                             output_inhibit_until, enabled, active,
                             connected >>]_vars

\* C30 witness: after a reset every counter is 0 while a packet is pending,
\* a frame has been emitted, source 1 is connected and a source is disabled
C30_Witness ==
    /\ rc_command = "reset counters"
    /\ main_pc = "decide"
    /\ iter_budget = 0
    /\ num_frames = 0
    /\ num_dropped = 0
    /\ num_queue_overruns = 0
    /\ num_dlfc_discontinuities = 0
    /\ late_score = 0
    /\ num_poll_timeout = 0
    /\ \A i \in Sources : num_connects[i] = 0
    /\ Len(pending_tagpackets) > 0
    /\ is_valid(most_recent_timestamp)
    /\ output_inhibit_until > 0
    /\ connected[1]
    /\ \E i \in Sources : ~enabled[i]

-----------------------------------------------------------------------------
(* Properties of the transmitter's accounting *)

\* C31: for every packet the transmitter pops, late_score is updated at the
\* transmitter: it increases by 10, clamped to 200, when the packet is late
\* at transmit time, dropped or not, and it decreases by 1, if positive,
\* when a frame is handed to the output.
C31_LateScoreAtTransmitter ==
    [][/\ (SendStep /\ SendLate(tagpacket))
             => late_score'
                   = Clamp(late_score + LATE_SCORE_INCREASE, 0, LATE_SCORE_MAX)
       /\ (OutputStep /\ ~SendLate(tagpacket))
             => late_score' = Clamp(late_score - 1, 0, LATE_SCORE_MAX)]_vars

\* a pending packet has the timestamp of tp and another DLFC
DlfcDisagreement(tp) ==
    \E k \in 1..Len(pending_tagpackets) :
       /\ ts_eq(pending_tagpackets[k].timestamp, tp.timestamp)
       /\ pending_tagpackets[k].dlfc # tp.dlfc

\* C32: a push of a packet with the timestamp of a pending packet and a
\* different dlfc leaves the queue as it was: the pending packet keeps its
\* payload, dlfc and hostnames, the incoming one is discarded.
C32_DlfcMismatchKeepsFirst ==
    [][\A in \in PushInputs :
          (PushStep(in[1], in[2]) /\ DlfcDisagreement(in[1]))
             => pending_tagpackets' = pending_tagpackets]_vars

\* C32 witness: of two pushes, neither late, already emitted nor inhibited,
\* one packet is pending, under the hostname of its first source alone
C32_Witness ==
    /\ push_budget = MaxPushes - 2
    /\ num_popped = 0
    /\ num_dropped = 0
    /\ \A h \in Hosts : num_late[h] = 0
    /\ Len(pending_tagpackets) = 1
    /\ Len(pending_tagpackets[1].hostnames) = 1

-----------------------------------------------------------------------------
(* Properties of the synchronisation *)

\* the fields the mutex protects
Protected == {"_pending_tagpackets", "_most_recent_timestamp", "late_score"}

\* the supervisor thread is about to access field f
SupervisorAccesses(f) ==
    /\ sup_at # Idle
    /\ StepAt(SupervisorCalls, sup_at).act \in {"read", "write"}
    /\ StepAt(SupervisorCalls, sup_at).field = f

\* the transmitter thread is about to access field f
TransmitterAccesses(f) ==
    /\ StepAt(TransmitterCalls, tx_at).act \in {"read", "write"}
    /\ StepAt(TransmitterCalls, tx_at).field = f

\* C33: every read and every write of the pending queue, of the most
\* recent emitted timestamp and of late_score, by either thread, happens
\* while the thread holds the mutex.
C33_ProtectedUnderMutex ==
    \A f \in Protected :
       /\ SupervisorAccesses(f) => mutex = "supervisor"
       /\ TransmitterAccesses(f) => mutex = "transmitter"

\* C34: the supervisor thread never accesses inhibit_until while the
\* transmitter thread writes it, unless the two accesses exclude each
\* other.
C34_InhibitUntilSynchronised ==
    ~ /\ SupervisorAccesses("_output_inhibit_until")
      /\ TransmitterAccesses("_output_inhibit_until")
      /\ StepAt(TransmitterCalls, tx_at).act = "write"

-----------------------------------------------------------------------------
(* Properties of the reconstructed ETI frame *)

\* an ETI frame has been reconstructed
Reconstructed == eti_frame # NoEti

\* the frame count of the reconstructed frame is even
FctEven == ((eti_frame.dlfc % 250) % 2) = 0

\* C35 as stated: the FSYNC bytes of a reconstructed frame are F8 C5 49
\* when fct = dlfc mod 250 is even and 07 3A B6 when it is odd.
C35_FsyncEvenF8 ==
    Reconstructed
       => eti_frame.fsync = IF FctEven THEN << 248, 197, 73 >>
                            ELSE << 7, 58, 182 >>

\* C35 amended: the FSYNC bytes of a reconstructed frame are 07 3A B6 when
\* fct = dlfc mod 250 is even and F8 C5 49 when it is odd, for every dlfc
\* in 0..4999.
C35_FsyncOddF8 ==
    Reconstructed
       => eti_frame.fsync = IF FctEven THEN << 7, 58, 182 >>
                            ELSE << 248, 197, 73 >>

\* C35 witness: the frame of dlfc 251, whose frame count 1 is odd, starts
\* with F8 C5 49
C35_Witness ==
    /\ eti_frame.dlfc = 251
    /\ eti_frame.fsync = << 248, 197, 73 >>

-----------------------------------------------------------------------------
(* Properties of the connection state *)

\* receiver i finds its source connected in this step
BecomesConnected(i) == ~connected[i] /\ connected'[i]

\* C36: whenever source.connected is true the receiver's socket is valid:
\* every step that closes the socket leaves connected false, and connected
\* becomes true only in a step of poll() and receive() on a socket that is
\* valid before and after it.
C36_ConnectedHasSocket ==
    /\ [](\A i \in Sources : connected[i] => sock_valid[i])
    /\ [][\A i \in Sources :
             /\ SocketCloses(i) => ~connected'[i]
             /\ BecomesConnected(i) => /\ main_pc = "poll"
                                       /\ sock_valid[i]
                                       /\ sock_valid'[i]]_vars

\* C36 witness: source 1 was connected, was switched away from and has lost
\* its socket and its connected flag, while another source is connected on
\* a valid socket
C36_Witness ==
    /\ num_connects[1] = 1
    /\ ~sock_valid[1]
    /\ ~connected[1]
    /\ \E i \in Sources \ {1} : connected[i] /\ sock_valid[i]

-----------------------------------------------------------------------------
(* Properties of the recovery *)

\* the output is not running ok while two or more sources are enabled
UnhappyWithStandby ==
    /\ mode = "switching"
    /\ Cardinality(EnabledSources) >= 2
    /\ ~is_running_ok

\* C37: in switching mode with two or more enabled sources that deliver
\* on-time frames, once late_score has reached 100 the output eventually
\* runs ok again: late_score falls below 100.
C37_OutputRecovers == UnhappyWithStandby ~> is_running_ok

-----------------------------------------------------------------------------
(* Properties of the statistics *)

\* C38: backoff_milliseconds_remaining() is the positive time left until
\* inhibit_until whenever the output is inhibited and 0 otherwise, and the
\* reply to "stats" reports in_backoff exactly when now < inhibit_until.
C38_BackoffRemainingPositive ==
    /\ backoff_milliseconds_remaining =
           IF steady_now < output_inhibit_until
           THEN output_inhibit_until - steady_now
           ELSE 0
    /\ in_backoff <=> steady_now < output_inhibit_until

-----------------------------------------------------------------------------
(* Properties of the transmitter's counters *)

\* the transmitter thread is done with the packet it popped
PacketEnds ==
    pc \in {"check", "inhibit", "send", "sleep"} /\ pc' \in {"loop", "done"}

\* the step counts one frame and no drop, or one drop and no frame
ExactlyOneCounted ==
    \/ num_frames' = num_frames + 1 /\ num_dropped' = num_dropped
    \/ num_frames' = num_frames /\ num_dropped' = num_dropped + 1

\* the step counts neither a frame nor a drop
NoneCounted == num_frames' = num_frames /\ num_dropped' = num_dropped

\* C39 as stated: with the EDI output enabled, every packet the transmitter
\* pops increments exactly one of num_frames and num_dropped by one.
C39_EveryPopCounted ==
    [][(edi_enabled /\ PacketEnds) => ExactlyOneCounted]_vars

\* C39 amended: with the EDI output enabled, the end of send_tagpacket
\* increments exactly one of num_frames and num_dropped by one, no other
\* step of the transmitter thread changes either, and a popped packet is
\* left uncounted only when the check after the pop finds _running cleared.
C39_EverySentPopCounted ==
    [][edi_enabled =>
          /\ SendDone => ExactlyOneCounted
          /\ (PacketEnds /\ ~SendDone) =>
                 ~running /\ pc = "check" /\ pc' = "done" /\ NoneCounted
          /\ (pc' # pc /\ ~PacketEnds) => NoneCounted]_vars

\* C39 witness: two packets were pushed, queued and popped; one was handed
\* to the output and the other dropped by send_tagpacket
C39_Witness ==
    /\ edi_enabled
    /\ push_budget = MaxPushes - 2
    /\ num_popped = 2
    /\ pc = "loop"
    /\ num_frames = 1
    /\ num_dropped = 1

-----------------------------------------------------------------------------
(* Properties of the collected frame data *)

\* receiver i holds nothing collected for a frame
CollectedEmpty(i) ==
    /\ collector[i].m_subchannels = 0
    /\ ~collector[i].m_fic
    /\ ~collector[i].m_fc_valid

\* C40: at the start of every AF packet the receiver's collected subchannel
\* list, FIC and fc_valid are empty, so that nothing collected for a packet
\* that failed is carried into a later packet, and the subchannel list
\* never holds more than 64 entries.
C40_CollectedStateFresh ==
    /\ [][PacketStep => CollectedEmpty(decoded'.source)]_vars
    /\ [](\A i \in Sources : collector[i].m_subchannels <= MAX_SUBCHANNELS)

====
